---- MODULE Spec2Model ----
(***************************************************************************)
(* Forward-curve hub: the V4/V5 curve pollers (v4_curve_provider.py,       *)
(* v5_curve_provider.py), the accuracy store (accuracy_storage.py) and the *)
(* WebSocket fan-out (ipc_ui_server.py) as state machines.                 *)
(*                                                                         *)
(* Python dicts are functions with a string domain, so "key in d" is       *)
(* k \in DOMAIN d; Python lists are sequences.  An asyncio task is a       *)
(* process whose position is the await it is suspended in; the code that   *)
(* runs between two awaits is one atomic step of the event loop.           *)
(***************************************************************************)
EXTENDS Integers, Sequences, FiniteSets, TLC

VARIABLES
    polling_task,        \* provider -> task held in self._polling_task
    broadcast_callback,  \* provider -> whether self._broadcast_callback is set
    last_curve,          \* provider -> self._last_curve
    curve_history,       \* V4CurveProvider._curve_history (the ledger)
    task_provider,       \* task -> provider whose _poll_loop it runs
    task_pc,             \* task -> the await the task is suspended in
    task_cancel,         \* task -> Task.cancel() was called, not yet delivered
    stopping,            \* provider -> task an in-flight stop_polling awaits
    handed,              \* provider -> message last handed to the callback
    task_outcome,        \* task -> how its latest cycle went (history variable)
    appends              \* _store_curve_snapshot calls so far, counted up to AppendsCap

pollVars == <<polling_task, broadcast_callback, last_curve, curve_history,
              task_provider, task_pc, task_cancel, stopping, handed,
              task_outcome, appends>>

VARIABLES
    daily_anchors,       \* table daily_anchors
    predictions,         \* table predictions
    accuracy_metrics,    \* table accuracy_metrics
    now,                 \* the clock datetime.now(UTC) reads
    last_committed       \* anchor date -> anchor facts of its latest committed call

storeVars == <<daily_anchors, predictions, accuracy_metrics, now, last_committed>>

VARIABLES
    ws_clients,          \* ForwardCurveServer.ws_clients
    conn_state,          \* connection -> where its handle_websocket is
    conn_alive,          \* connection -> a send_str to it succeeds
    bc_pc,               \* broadcaster -> idle, or suspended in a send_str
    bc_size,             \* broadcaster -> len(ws_clients) when its iterator was made
    bc_members,          \* broadcaster -> ws_clients when its iterator was made
    bc_seen,             \* broadcaster -> connections its for loop has reached
    bc_current,          \* broadcaster -> connection whose send_str it awaits
    bc_disconnected      \* broadcaster -> its local set disconnected

wsVars == <<ws_clients, conn_state, conn_alive, bc_pc, bc_size, bc_members,
            bc_seen, bc_current, bc_disconnected>>

VARIABLES
    upstream,            \* the upstream's answers to the latest fetch_curve
    summary,             \* what the latest get_accuracy_summary returned
    store_calls,         \* observed store_v4_data calls so far (history variable)
    last_call,           \* input and outcome of the latest observed call (history variable)
    returned             \* the observed evaluation of a function: arguments and result

obsVars == <<upstream, summary, store_calls, last_call, returned>>

vars == <<pollVars, storeVars, wsVars, obsVars>>

(***************************************************************************)
(* Bounds and domains                                                      *)
(***************************************************************************)

\* V4CurveProvider._max_history_size, 300 in the source, scaled down.
max_history_size == 3

\* The last clock reading.
MaxTime == 1

\* The calendar days the clock of the summary specification runs through.
MaxDays == 2

\* Clock readings per calendar day.
TicksPerDay == 2

\* The number of store_v4_data calls observed one by one.
MaxCalls == 3

\* Entries in an upstream history answer.
MaxEntries == 2

\* How far the history variable appends counts.
AppendsCap == max_history_size + 2

Providers == {"V4", "V5"}

\* WebSocketResponse objects, one per connection.
Connections == {"ws1", "ws2", "ws3"}
NoConnection == "none"

\* Tasks that call ForwardCurveServer.broadcast.
Broadcasters == {"v4_poller", "heartbeat"}

\* asyncio.Task objects that start_polling may create.
TaskIds == {"t1", "t2"}
NoTask == "none"

\* V4CurveProvider.HORIZONS, the first two of the catalog's eight.
HORIZONS == <<"+1H", "+2H">>

Prices == {65150, 65180}

\* An ISO instant "2025-06-01T13:00:00Z" is the pair of its parts around
\* the "T", so that split('T')[0] is the first part.
FirstAnchor == <<"2025-06-01", "13:00:00Z">>
SameDayAnchor == <<"2025-06-01", "14:00:00Z">>
NextDayAnchor == <<"2025-06-02", "13:00:00Z">>
Anchors == {FirstAnchor, NextDayAnchor}

\* Python's None where the other values are numbers (all of them >= 0).
None == 0 - 1

\* dict.get(key, default): the default stands in for an absent key only; a
\* key present with the value None yields None.
DictGet(d, key, default) == IF key \in DOMAIN d THEN d[key] ELSE default

\* The upstream's original prediction is fixed per anchor and horizon.
OriginalOf(anchor, horizon) ==
    IF horizon = "+1H" THEN 65200 ELSE 65400

NoCurve == [type |-> "None"]

\* No fetch answered yet, no summary asked yet, no call observed yet, no
\* function evaluated yet.
NoResponses == [provider |-> "none", tracking |-> "none"]
NoSummary == [days |-> 0 - 1]
NoCall == [outcome |-> "none"]
NoReturn == [function |-> "none"]

\* The curves fetch_curve can return for the V4 upstream under the given
\* anchors: every realized flag and every price per horizon.
V4UpstreamCurves(anchors) ==
    { [type |-> "v4_forward_curve",
       anchor_timestamp |-> a,
       curve |-> [i \in 1..Len(HORIZONS) |->
                    [horizon |-> HORIZONS[i],
                     target_price |-> tp[i],
                     is_actual |-> act[i],
                     original_price |-> OriginalOf(a, HORIZONS[i])]]] :
      a \in anchors,
      tp \in [1..Len(HORIZONS) -> Prices],
      act \in [1..Len(HORIZONS) -> BOOLEAN] }

\* The first anchor's curves with "+2H" at one price: "+1H" takes every
\* price and flag, "+2H" every flag.
V4LedgerCurves ==
    { c \in V4UpstreamCurves({FirstAnchor}) : c.curve[2].target_price = 65150 }

\* A two-curve upstream: "+1H" pending at 65150, or realized at 65180.
V4SmallCurves ==
    { c \in V4UpstreamCurves(Anchors) :
        /\ c.anchor_timestamp = FirstAnchor
        /\ c.curve[2].is_actual = FALSE
        /\ c.curve[2].target_price = 65150
        /\ c.curve[1].target_price = IF c.curve[1].is_actual THEN 65180 ELSE 65150 }

\* The upstream across an anchor rollover: "+1H" pending or realized, at
\* 65150 under the first anchor and at 65180 under the next day's, "+2H"
\* pending at 65150.
V4RolloverCurves ==
    { c \in V4UpstreamCurves(Anchors) :
        /\ c.curve[2].is_actual = FALSE
        /\ c.curve[2].target_price = 65150
        /\ c.curve[1].target_price =
               IF c.anchor_timestamp = FirstAnchor THEN 65150 ELSE 65180 }

\* The order of the anchors in time.
AnchorOrder(anchor_timestamp) ==
    CASE anchor_timestamp = FirstAnchor -> 1
      [] anchor_timestamp = SameDayAnchor -> 2
      [] anchor_timestamp = NextDayAnchor -> 3

V5UpstreamCurves ==
    { [type |-> "forward_curve",
       current_price |-> cp,
       curve |-> <<[horizon |-> "+1H", target_price |-> cp]>>] :
      cp \in Prices }

(***************************************************************************)
(* V4CurveProvider: ledger and stabilization (pure functions)              *)
(***************************************************************************)

\* Mutant of SnapshotPredictions: realized points are recorded as well.
SnapshotAllPoints(points) ==
    [h \in { points[i].horizon : i \in DOMAIN points } |->
        LET point == points[CHOOSE i \in DOMAIN points : points[i].horizon = h]
        IN  [price |-> point.target_price, original_price |-> point.original_price]]

\* The loop of _store_curve_snapshot over curve["curve"]: a pending point
\* writes predictions[horizon]; a realized point writes nothing.
RECURSIVE SnapshotPredictions(_)
SnapshotPredictions(points) ==
    IF points = <<>> THEN <<>>
    ELSE LET n == Len(points)
             point == points[n]
             before == SnapshotPredictions(SubSeq(points, 1, n - 1))
         IN  IF ~point.is_actual
             THEN (point.horizon :> [price |-> point.target_price,
                                     original_price |-> point.original_price])
                  @@ before
             ELSE before

\* The snapshot dict built by _store_curve_snapshot.  Its "timestamp" and
\* "hours_elapsed" are copied into the local evolution list only and are
\* left out.
Snapshot(curve) ==
    [anchor_timestamp |-> curve.anchor_timestamp,
     predictions |-> SnapshotPredictions(curve.curve)]

\* Mutant of TrimHistory: the slice [:max] keeps the oldest snapshots.
TrimHistoryKeepsOldest(history) ==
    SubSeq(history, 1, max_history_size)

\* self._curve_history[-self._max_history_size:]
TrimHistory(history) ==
    SubSeq(history, Len(history) - max_history_size + 1, Len(history))

\* _store_curve_snapshot: append, then trim to max size.
StoreCurveSnapshot(history, curve) ==
    LET appended == Append(history, Snapshot(curve))
    IN  IF Len(appended) > max_history_size
        THEN TrimHistory(appended)
        ELSE appended

\* The evolution list of _add_history_to_curve for one horizon: the price
\* of every snapshot, oldest first, whose predictions hold the horizon.
RECURSIVE Evolution(_, _)
Evolution(history, horizon) ==
    IF history = <<>> THEN <<>>
    ELSE LET n == Len(history)
             snapshot == history[n]
             before == Evolution(SubSeq(history, 1, n - 1), horizon)
         IN  IF horizon \in DOMAIN snapshot.predictions
             THEN Append(before, snapshot.predictions[horizon].price)
             ELSE before

\* Mutant of LastStabilized: evolution[0], the first pending price.
FirstStabilized(evolution) == evolution[1]

\* evolution[-1]["price"]
LastStabilized(evolution) == evolution[Len(evolution)]

\* Mutant of PointWithHistory: a pending point is given the oldest pending
\* price of its evolution instead of its own target_price.
PointWithOldestPending(point, history) ==
    LET evolution == Evolution(history, point.horizon)
        stabilized ==
            IF point.is_actual /\ evolution # <<>>
            THEN ("last_stabilized_price" :> LastStabilized(evolution)) @@ point
            ELSE IF ~point.is_actual /\ evolution # <<>>
            THEN ("last_stabilized_price" :> evolution[1]) @@ point
            ELSE point
    IN  ("evolution_count" :> Len(evolution)) @@ stabilized

\* point_copy of _add_history_to_curve.
PointWithHistory(point, history) ==
    LET evolution == Evolution(history, point.horizon)
        stabilized ==
            IF point.is_actual /\ evolution # <<>>
            THEN ("last_stabilized_price" :> LastStabilized(evolution)) @@ point
            ELSE IF ~point.is_actual /\ evolution # <<>>
            THEN ("last_stabilized_price" :> point.target_price) @@ point
            ELSE point
    IN  ("evolution_count" :> Len(evolution)) @@ stabilized

\* _add_history_to_curve: a copy of the curve with enriched points and
\* history_size.
AddHistoryToCurve(curve, history) ==
    ("history_size" :> Len(history))
    @@ [curve EXCEPT !.curve =
            [i \in 1..Len(curve.curve) |-> PointWithHistory(curve.curve[i], history)]]

\* Mutant of AfterCopy: point_copy = point, the writes go to the input.
AfterAlias(original, written) == written

\* point.copy(): the copy is a new dict, so the original holds after the
\* item assignments to the copy what it held before them.
AfterCopy(original, written) == original

\* One call of _add_history_to_curve: what it returns, and what the input
\* curve and the ledger hold when it has returned.  The ledger is only read.
AddHistoryCall(curve, history) ==
    [result |-> AddHistoryToCurve(curve, history),
     curve |-> [curve EXCEPT !.curve =
                   [i \in 1..Len(curve.curve) |->
                       AfterCopy(curve.curve[i],
                                 PointWithHistory(curve.curve[i], history))]],
     history |-> history]

(***************************************************************************)
(* start_polling / stop_polling                                            *)
(***************************************************************************)

\* start_polling: set the callback, create a task, keep it in _polling_task.
StartPolling(p) ==
    \E t \in TaskIds :
        /\ task_pc[t] = "unborn"
        /\ broadcast_callback' = [broadcast_callback EXCEPT ![p] = TRUE]
        /\ polling_task' = [polling_task EXCEPT ![p] = t]
        /\ task_provider' = [task_provider EXCEPT ![t] = p]
        /\ task_pc' = [task_pc EXCEPT ![t] = "created"]
        /\ UNCHANGED <<storeVars, wsVars, obsVars, last_curve, curve_history, task_cancel, stopping, handed, task_outcome, appends>>

\* ForwardCurveServer.start: each provider's polling is started once.
ServerStart(p) ==
    /\ polling_task[p] = NoTask
    /\ StartPolling(p)

\* stop_polling up to its await: cancel the held task and wait for it; with
\* no task held it returns at once.
StopPollingCall(p) ==
    /\ stopping[p] = NoTask
    /\ IF polling_task[p] # NoTask
       THEN /\ task_cancel' = [task_cancel EXCEPT
                  ![polling_task[p]] = task_pc[polling_task[p]] # "done"]
            /\ stopping' = [stopping EXCEPT ![p] = polling_task[p]]
       ELSE UNCHANGED <<task_cancel, stopping>>
    /\ UNCHANGED <<storeVars, wsVars, obsVars, polling_task, broadcast_callback, last_curve, curve_history,
                   task_provider, task_pc, handed, task_outcome, appends>>

\* stop_polling resumes when the awaited task has ended.
StopPollingReturn(p) ==
    /\ stopping[p] # NoTask
    /\ task_pc[stopping[p]] = "done"
    /\ stopping' = [stopping EXCEPT ![p] = NoTask]
    /\ UNCHANGED <<storeVars, wsVars, obsVars, polling_task, broadcast_callback, last_curve, curve_history,
                   task_provider, task_pc, task_cancel, handed, task_outcome, appends>>

(***************************************************************************)
(* _poll_loop, one step per await                                          *)
(***************************************************************************)

Runs(t, p) ==
    /\ task_provider[t] = p
    /\ ~task_cancel[t]

\* The task's first step: enter the loop and suspend in fetch_curve.
TaskBegin(t) ==
    /\ task_pc[t] = "created"
    /\ ~task_cancel[t]
    /\ task_pc' = [task_pc EXCEPT ![t] = "fetch"]
    /\ UNCHANGED <<storeVars, wsVars, obsVars, polling_task, broadcast_callback, last_curve, curve_history, task_provider,
                   task_cancel, stopping, handed, task_outcome, appends>>

\* The await at which a task was cancelled, as an outcome.
CancelledIn(pc) ==
    CASE pc = "created" -> "cancelled_before_start"
      [] pc = "fetch" -> "cancelled_in_fetch"
      [] pc = "broadcast" -> "cancelled_in_broadcast"
      [] pc = "sleep" -> "cancelled_in_sleep"
      [] pc = "backoff" -> "cancelled_in_fallback_sleep"

\* CancelledError raised at the task's await: except CancelledError: break
\* (out of the fallback sleep, which is awaited inside the except Exception
\* handler, it leaves the coroutine uncaught; the task ends as well).
TaskCancelled(t) ==
    /\ task_cancel[t]
    /\ task_pc[t] \in {"created", "fetch", "broadcast", "sleep", "backoff"}
    /\ task_pc' = [task_pc EXCEPT ![t] = "done"]
    /\ task_cancel' = [task_cancel EXCEPT ![t] = FALSE]
    /\ task_outcome' = [task_outcome EXCEPT ![t] = CancelledIn(task_pc[t])]
    /\ UNCHANGED <<storeVars, wsVars, obsVars, polling_task, broadcast_callback, last_curve, curve_history, task_provider,
                   stopping, handed, appends>>

\* Mutant of V4OnCurve: the curve is enriched before its snapshot is stored.
V4OnCurveEnrichesFirst(t, curve) ==
    /\ Runs(t, "V4")
    /\ task_pc[t] = "fetch"
    /\ broadcast_callback["V4"]
    /\ curve_history' = StoreCurveSnapshot(curve_history, curve)
    /\ LET call == AddHistoryCall(curve, curve_history)
       IN  /\ last_curve' = [last_curve EXCEPT !["V4"] = call.curve]
           /\ handed' = [handed EXCEPT !["V4"] = call.result]
    /\ appends' = IF appends < AppendsCap THEN appends + 1 ELSE appends
    /\ task_pc' = [task_pc EXCEPT ![t] = "broadcast"]
    /\ task_outcome' = [task_outcome EXCEPT ![t] = "curve"]
    /\ UNCHANGED <<storeVars, wsVars, polling_task, broadcast_callback, task_provider, task_cancel, stopping>>

\* V4: fetch_curve returned a curve: keep it, store the snapshot, enrich,
\* and enter the broadcast callback with the enriched copy.  _last_curve is
\* the object passed to _add_history_to_curve, the ledger the one it read.
V4OnCurve(t, curve) ==
    /\ Runs(t, "V4")
    /\ task_pc[t] = "fetch"
    /\ broadcast_callback["V4"]
    /\ curve_history' = StoreCurveSnapshot(curve_history, curve)
    /\ LET call == AddHistoryCall(curve, curve_history')
       IN  /\ last_curve' = [last_curve EXCEPT !["V4"] = call.curve]
           /\ handed' = [handed EXCEPT !["V4"] = call.result]
    /\ appends' = IF appends < AppendsCap THEN appends + 1 ELSE appends
    /\ task_pc' = [task_pc EXCEPT ![t] = "broadcast"]
    /\ task_outcome' = [task_outcome EXCEPT ![t] = "curve"]
    /\ UNCHANGED <<storeVars, wsVars, polling_task, broadcast_callback, task_provider, task_cancel, stopping>>

\* The same with the answers of the upstream left unobserved.
V4FetchedCurve(t, curve) ==
    /\ V4OnCurve(t, curve)
    /\ UNCHANGED obsVars

\* The same against an upstream whose anchor never goes back: the curve
\* fetched is of the anchor of the last one fetched or of a later anchor.
V4FetchedAcrossRollover(t, curve) ==
    /\ IF last_curve["V4"] = NoCurve THEN TRUE
       ELSE AnchorOrder(last_curve["V4"].anchor_timestamp)
              <= AnchorOrder(curve.anchor_timestamp)
    /\ V4FetchedCurve(t, curve)

\* Mutant of V4FetchedNone: self._last_curve = curve moved above the if.
V4FetchedNoneOverwrites(t) ==
    /\ Runs(t, "V4")
    /\ task_pc[t] = "fetch"
    /\ task_pc' = [task_pc EXCEPT ![t] = "sleep"]
    /\ task_outcome' = [task_outcome EXCEPT ![t] = "failed"]
    /\ last_curve' = [last_curve EXCEPT !["V4"] = NoCurve]
    /\ UNCHANGED <<storeVars, wsVars, obsVars, polling_task, broadcast_callback, curve_history, task_provider,
                   task_cancel, stopping, handed, appends>>

\* V4: fetch_curve returned None: straight to the aligned sleep.
V4OnNone(t) ==
    /\ Runs(t, "V4")
    /\ task_pc[t] = "fetch"
    /\ task_pc' = [task_pc EXCEPT ![t] = "sleep"]
    /\ task_outcome' = [task_outcome EXCEPT ![t] = "failed"]
    /\ UNCHANGED <<storeVars, wsVars, polling_task, broadcast_callback, last_curve, curve_history, task_provider,
                   task_cancel, stopping, handed, appends>>

\* The same with the answers of the upstream left unobserved.
V4FetchedNone(t) ==
    /\ V4OnNone(t)
    /\ UNCHANGED obsVars

\* V4: the callback returned: compute the wait and sleep.
V4BroadcastReturned(t) ==
    /\ Runs(t, "V4")
    /\ task_pc[t] = "broadcast"
    /\ task_pc' = [task_pc EXCEPT ![t] = "sleep"]
    /\ UNCHANGED <<storeVars, wsVars, obsVars, polling_task, broadcast_callback, last_curve, curve_history, task_provider,
                   task_cancel, stopping, handed, task_outcome, appends>>

\* Mutant of V4BroadcastRaised: the handler leaves the loop (break).
V4BroadcastRaisedEndsLoop(t) ==
    /\ Runs(t, "V4")
    /\ task_pc[t] = "broadcast"
    /\ task_pc' = [task_pc EXCEPT ![t] = "done"]
    /\ task_outcome' = [task_outcome EXCEPT ![t] = "raised"]
    /\ UNCHANGED <<storeVars, wsVars, obsVars, polling_task, broadcast_callback, last_curve, curve_history,
                   task_provider, task_cancel, stopping, handed, appends>>

\* V4: the callback raised: except Exception: log, sleep(60).
V4BroadcastRaised(t) ==
    /\ Runs(t, "V4")
    /\ task_pc[t] = "broadcast"
    /\ task_pc' = [task_pc EXCEPT ![t] = "backoff"]
    /\ task_outcome' = [task_outcome EXCEPT ![t] = "raised"]
    /\ UNCHANGED <<storeVars, wsVars, obsVars, polling_task, broadcast_callback, last_curve, curve_history, task_provider,
                   task_cancel, stopping, handed, appends>>

\* V4: a sleep (aligned or fallback) ended: next iteration, into fetch_curve.
V4SleepEnded(t) ==
    /\ Runs(t, "V4")
    /\ task_pc[t] \in {"sleep", "backoff"}
    /\ task_pc' = [task_pc EXCEPT ![t] = "fetch"]
    /\ UNCHANGED <<storeVars, wsVars, obsVars, polling_task, broadcast_callback, last_curve, curve_history, task_provider,
                   task_cancel, stopping, handed, task_outcome, appends>>

\* V5: fetch_curve returned a curve: keep it and enter the callback.
V5OnCurve(t, curve) ==
    /\ Runs(t, "V5")
    /\ task_pc[t] = "fetch"
    /\ broadcast_callback["V5"]
    /\ last_curve' = [last_curve EXCEPT !["V5"] = curve]
    /\ handed' = [handed EXCEPT !["V5"] = curve]
    /\ task_pc' = [task_pc EXCEPT ![t] = "broadcast"]
    /\ task_outcome' = [task_outcome EXCEPT ![t] = "curve"]
    /\ UNCHANGED <<storeVars, wsVars, polling_task, broadcast_callback, curve_history, task_provider, task_cancel,
                   stopping, appends>>

\* The same with the answers of the upstream left unobserved.
V5FetchedCurve(t, curve) ==
    /\ V5OnCurve(t, curve)
    /\ UNCHANGED obsVars

\* V5: fetch_curve returned None.
V5OnNone(t) ==
    /\ Runs(t, "V5")
    /\ task_pc[t] = "fetch"
    /\ task_pc' = [task_pc EXCEPT ![t] = "sleep"]
    /\ task_outcome' = [task_outcome EXCEPT ![t] = "failed"]
    /\ UNCHANGED <<storeVars, wsVars, polling_task, broadcast_callback, last_curve, curve_history, task_provider,
                   task_cancel, stopping, handed, appends>>

\* The same with the answers of the upstream left unobserved.
V5FetchedNone(t) ==
    /\ V5OnNone(t)
    /\ UNCHANGED obsVars

\* V5: the callback returned.
V5BroadcastReturned(t) ==
    /\ Runs(t, "V5")
    /\ task_pc[t] = "broadcast"
    /\ task_pc' = [task_pc EXCEPT ![t] = "sleep"]
    /\ UNCHANGED <<storeVars, wsVars, obsVars, polling_task, broadcast_callback, last_curve, curve_history, task_provider,
                   task_cancel, stopping, handed, task_outcome, appends>>

\* V5: the callback raised: except Exception: log, sleep(60).
V5BroadcastRaised(t) ==
    /\ Runs(t, "V5")
    /\ task_pc[t] = "broadcast"
    /\ task_pc' = [task_pc EXCEPT ![t] = "backoff"]
    /\ task_outcome' = [task_outcome EXCEPT ![t] = "raised"]
    /\ UNCHANGED <<storeVars, wsVars, obsVars, polling_task, broadcast_callback, last_curve, curve_history, task_provider,
                   task_cancel, stopping, handed, appends>>

\* V5: a sleep (aligned or fallback) ended.
V5SleepEnded(t) ==
    /\ Runs(t, "V5")
    /\ task_pc[t] \in {"sleep", "backoff"}
    /\ task_pc' = [task_pc EXCEPT ![t] = "fetch"]
    /\ UNCHANGED <<storeVars, wsVars, obsVars, polling_task, broadcast_callback, last_curve, curve_history, task_provider,
                   task_cancel, stopping, handed, task_outcome, appends>>

(***************************************************************************)
(* _transform_response and _extract_stabilized_from_history on decoded     *)
(* bodies                                                                  *)
(*                                                                         *)
(* A decoded JSON object is a function on its keys, <<>> the empty object; *)
(* null inside an object is None.  An optional body (yesterday_data,       *)
(* history_data) is NoBody for Python's None or Body(b).  A timestamp is   *)
(* a number: ISO strings of one format compare as their instants do.       *)
(***************************************************************************)

NoBody == [is_none |-> TRUE]
Body(b) == [is_none |-> FALSE, body |-> b]

\* Truthiness of a dict: it has a key.
DictTruthy(d) == DOMAIN d # {}

\* The catalog as a set.
CatalogHorizons == { HORIZONS[i] : i \in DOMAIN HORIZONS }

\* list.insert keeping the order by x.get("timestamp", ""): the element
\* goes after every element whose key is not greater (the sort is stable).
InsertByTimestamp(sorted, x) ==
    LET key(e) == DictGet(e, "timestamp", 0)
        k == Cardinality({ i \in DOMAIN sorted : key(sorted[i]) <= key(x) })
    IN  SubSeq(sorted, 1, k) \o <<x>> \o SubSeq(sorted, k + 1, Len(sorted))

\* Mutant of SortedHistory: the history is taken in the order it arrived.
UnsortedHistory(history) == history

\* sorted(history_data, key=lambda x: x.get("timestamp", ""))
RECURSIVE SortedHistory(_)
SortedHistory(history) ==
    IF history = <<>> THEN <<>>
    ELSE InsertByTimestamp(SortedHistory(SubSeq(history, 1, Len(history) - 1)),
                           history[Len(history)])

\* The for loop over sorted_history for one horizon: last_prediction and
\* last_timestamp of the last entry that holds the horizon and not as
\* actual; None, None when there is none.
RECURSIVE LastPrediction(_, _)
LastPrediction(sorted_history, horizon) ==
    IF sorted_history = <<>> THEN [price |-> None, timestamp |-> None]
    ELSE LET entry == sorted_history[Len(sorted_history)]
             fc == DictGet(entry, "forward_curve", <<>>)
             h_data == DictGet(fc, horizon, <<>>)
         IN  IF DictTruthy(h_data) /\ ~DictGet(h_data, "is_actual", FALSE)
             THEN [price |-> DictGet(h_data, "price", None),
                   timestamp |-> DictGet(entry, "timestamp", None)]
             ELSE LastPrediction(SubSeq(sorted_history, 1, Len(sorted_history) - 1),
                                 horizon)

\* _extract_stabilized_from_history: nothing without history; else, per
\* catalog horizon, the last prediction before it became actual, or the
\* current price while it is pending.
ExtractStabilizedFromHistory(history_data, current_curve) ==
    IF history_data.is_none \/ history_data.body = <<>> THEN <<>>
    ELSE LET sorted_history == SortedHistory(history_data.body)
             is_now_actual(h) ==
                 DictGet(DictGet(current_curve, h, <<>>), "is_actual", FALSE)
             last(h) == LastPrediction(sorted_history, h)
             entered == { h \in CatalogHorizons :
                            is_now_actual(h) => last(h).price # None }
         IN  [h \in entered |->
                 IF is_now_actual(h) THEN last(h)
                 ELSE [price |-> DictGet(DictGet(current_curve, h, <<>>), "price", None),
                       timestamp |-> None]]

\* The point of V4 _transform_response for a horizon of forward_curve.
V4CurvePoint(horizon, point, orig, yest, stab) ==
    [horizon |-> horizon,
     target_price |-> DictGet(point, "price", 0),
     pct_change |-> DictGet(point, "pct_change", 0),
     lower_90 |-> DictGet(point, "lower_90", 0),
     upper_90 |-> DictGet(point, "upper_90", 0),
     is_actual |-> DictGet(point, "is_actual", FALSE),
     original_price |-> DictGet(orig, "original_price", None),
     original_pct |-> DictGet(orig, "original_pct", None),
     yesterday_price |-> DictGet(yest, "price", None),
     stabilized_price |-> DictGet(stab, "price", None),
     stabilized_timestamp |-> DictGet(stab, "timestamp", None)]

\* curve_points: one point per catalog horizon held by forward_curve, in
\* the catalog's order.
RECURSIVE V4CurvePoints(_, _, _, _, _)
V4CurvePoints(horizons, forward_curve, original_predictions, yesterday_curve, stabilized_predictions) ==
    IF horizons = <<>> THEN <<>>
    ELSE LET horizon == Head(horizons)
             rest == V4CurvePoints(Tail(horizons), forward_curve, original_predictions,
                                   yesterday_curve, stabilized_predictions)
         IN  IF horizon \in DOMAIN forward_curve
             THEN <<V4CurvePoint(horizon, forward_curve[horizon],
                                 DictGet(original_predictions, horizon, <<>>),
                                 DictGet(yesterday_curve, horizon, <<>>),
                                 DictGet(stabilized_predictions, horizon, <<>>))>>
                  \o rest
             ELSE rest

\* V4 _transform_response on the decoded bodies ("timestamp", the time of
\* the call, is left out).
V4Transform(data, yesterday_data, history_data) ==
    LET forward_curve == DictGet(data, "forward_curve", <<>>)
        original_predictions == DictGet(data, "original_predictions", <<>>)
        yesterday_curve ==
            IF ~yesterday_data.is_none /\ DictTruthy(yesterday_data.body)
            THEN DictGet(yesterday_data.body, "forward_curve", <<>>)
            ELSE <<>>
        stabilized_predictions ==
            ExtractStabilizedFromHistory(history_data, forward_curve)
    IN  [type |-> "v4_forward_curve",
         generated_at |-> DictGet(data, "generated_at", None),
         anchor_timestamp |-> DictGet(data, "anchor_timestamp", None),
         hours_elapsed |-> DictGet(data, "hours_elapsed", 0),
         current_price |-> DictGet(data, "current_price", 0),
         anchor_price |-> DictGet(data, "current_price", 0),
         direction |-> DictGet(data, "direction", "neutral"),
         regime |-> DictGet(data, "regime", "neutral"),
         curve_quality |-> DictGet(data, "curve_quality", 0),
         curve |-> V4CurvePoints(HORIZONS, forward_curve, original_predictions,
                                 yesterday_curve, stabilized_predictions),
         model |-> "V4.32",
         has_yesterday |-> ~yesterday_data.is_none,
         has_history |-> ~history_data.is_none /\ Len(history_data.body) > 0]

\* The point of V5 _transform_response.
V5CurvePoint(horizon, point) ==
    [horizon |-> horizon,
     target_price |-> DictGet(point, "target_price", 0),
     pct_change |-> DictGet(point, "pct_change", 0),
     lower_90 |-> DictGet(point, "lower_90", 0),
     upper_90 |-> DictGet(point, "upper_90", 0)]

RECURSIVE V5CurvePoints(_, _)
V5CurvePoints(horizons, forward_curve) ==
    IF horizons = <<>> THEN <<>>
    ELSE LET horizon == Head(horizons)
             rest == V5CurvePoints(Tail(horizons), forward_curve)
         IN  IF horizon \in DOMAIN forward_curve
             THEN <<V5CurvePoint(horizon, forward_curve[horizon])>> \o rest
             ELSE rest

\* V5 _transform_response on the decoded body.
V5Transform(data) ==
    [type |-> "forward_curve",
     model_timestamp |-> DictGet(data, "timestamp", None),
     current_price |-> DictGet(data, "current_price", 0),
     direction |-> DictGet(data, "direction", "NEUTRAL"),
     confidence_level |-> DictGet(data, "confidence_level", "LOW"),
     confidence_score |-> DictGet(data, "confidence_score", 0),
     curve |-> V5CurvePoints(HORIZONS, DictGet(data, "forward_curve", <<>>)),
     model |-> "V5 Flash (LSTM+TFT)"]

\* _transform_response of provider p is evaluated on decoded bodies.
Transformed(p, data, yesterday_data, history_data) ==
    /\ returned = NoReturn
    /\ returned' = [function |-> "_transform_response", provider |-> p,
                    data |-> data, yesterday_data |-> yesterday_data,
                    history_data |-> history_data,
                    result |-> IF p = "V4"
                               THEN V4Transform(data, yesterday_data, history_data)
                               ELSE V5Transform(data)]
    /\ UNCHANGED <<pollVars, storeVars, wsVars, upstream, summary, store_calls, last_call>>

\* _extract_stabilized_from_history is evaluated.
Extracted(history_data, current_curve) ==
    /\ returned = NoReturn
    /\ returned' = [function |-> "_extract_stabilized_from_history",
                    history_data |-> history_data,
                    current_curve |-> current_curve,
                    result |-> ExtractStabilizedFromHistory(history_data, current_curve)]
    /\ UNCHANGED <<pollVars, storeVars, wsVars, upstream, summary, store_calls, last_call>>

(***************************************************************************)
(* _poll_loop: the wait until the next 5-minute mark                       *)
(***************************************************************************)

\* The seconds added after the mark: V4 polls 5 s past it, V5 2 s.
SleepOffset(p) == IF p = "V4" THEN 5 ELSE 2

\* next_5min before the wrap: ((current_minute // 5) + 1) * 5
NextFiveMin(current_minute) == ((current_minute \div 5) + 1) * 5

\* Mutant of MinutesToWait: past :55 the wait is taken from the wrapped
\* next_5min alone.
MinutesToWaitFromWrapped(current_minute) ==
    IF NextFiveMin(current_minute) >= 60
    THEN 0 - current_minute
    ELSE NextFiveMin(current_minute) - current_minute

\* minutes_to_wait: past :55 the mark wraps to :00 of the next hour.
MinutesToWait(current_minute) ==
    IF NextFiveMin(current_minute) >= 60
    THEN (60 - current_minute) + 0
    ELSE NextFiveMin(current_minute) - current_minute

\* seconds_to_wait
SecondsToWait(p, current_minute, current_second) ==
    (MinutesToWait(current_minute) * 60) - current_second + SleepOffset(p)

\* A cycle of provider p reaches the wait computation at minute:second of
\* the wall clock, after a fetch that returned a curve (and its broadcast)
\* or None: both paths run the same statements.
WaitComputed(p, after, minute, second) ==
    /\ returned = NoReturn
    /\ returned' = [function |-> "seconds_to_wait", provider |-> p,
                    after |-> after, minute |-> minute, second |-> second,
                    result |-> SecondsToWait(p, minute, second)]
    /\ UNCHANGED <<pollVars, storeVars, wsVars, upstream, summary, store_calls, last_call>>

(***************************************************************************)
(* fetch_curve: what the upstream answers and what the call makes of it    *)
(***************************************************************************)

\* What one GET can come to: the connection fails, the request times out,
\* the status is not 200, the 200 body does not decode as JSON, it decodes
\* to a value that is not the expected object or list, or all is well.
Outcomes ==
    {"connection_error", "timeout", "status_error", "undecodable",
     "unexpected_shape", "ok"}

\* The classes derived from Exception among those a fetch can meet;
\* CancelledError derives from BaseException and is not among them.
ExceptionClasses ==
    {"ClientError", "TimeoutError", "JSONDecodeError", "AttributeError"}

\* Mutant of IsException: the handlers catch the timeout only.
IsTimeoutOnly(exc) == exc = "TimeoutError"

\* except Exception: the classes the second handler catches.
IsException(exc) == exc \in ExceptionClasses

Returned(value) == [raised |-> "none", value |-> value]
Raised(exc) == [raised |-> exc, value |-> NoCurve]

\* The exception a failed GET ends with.
ExceptionOf(outcome) ==
    IF outcome = "timeout" THEN "TimeoutError" ELSE "ClientError"

\* gather(..., return_exceptions=True) hands a failed GET back as an
\* exception object: isinstance(resp, Exception).
IsExceptionObject(outcome) == outcome \in {"connection_error", "timeout"}

\* resp.status of a response that arrived.
Status(outcome) == IF outcome = "status_error" THEN 500 ELSE 200

\* The curve with has_yesterday and has_history set.
WithFlags(curve, has_yesterday, has_history) ==
    [f \in DOMAIN curve \cup {"has_yesterday", "has_history"} |->
        IF f = "has_yesterday" THEN has_yesterday
        ELSE IF f = "has_history" THEN has_history
        ELSE curve[f]]

\* yesterday_data / history_data is not None: the GET answered 200 (and its
\* body was read).
Read(outcome) == ~IsExceptionObject(outcome) /\ Status(outcome) = 200

\* V4 _transform_response: .get on the three decoded bodies, then the curve.
V4TransformResponse(responses) ==
    IF responses.tracking = "unexpected_shape" THEN Raised("AttributeError")
    ELSE IF Read(responses.yesterday) /\ responses.yesterday = "unexpected_shape"
    THEN Raised("AttributeError")
    ELSE IF Read(responses.history) /\ responses.history = "unexpected_shape"
    THEN Raised("AttributeError")
    ELSE Returned(WithFlags(responses.data,
                            Read(responses.yesterday), Read(responses.history)))

\* V4 fetch_curve, the body of the try: the tracking check, the three
\* .json() calls, the transformation.
V4FetchBody(responses) ==
    IF IsExceptionObject(responses.tracking) \/ Status(responses.tracking) # 200
    THEN Returned(NoCurve)
    ELSE IF responses.tracking = "undecodable" THEN Raised("JSONDecodeError")
    ELSE IF Read(responses.yesterday) /\ responses.yesterday = "undecodable"
    THEN Raised("JSONDecodeError")
    ELSE IF Read(responses.history) /\ responses.history = "undecodable"
    THEN Raised("JSONDecodeError")
    ELSE V4TransformResponse(responses)

\* The two handlers of fetch_curve (the same in both providers): a caught
\* exception becomes None, any other leaves the call.
Handled(body) ==
    IF body.raised = "none" THEN body
    ELSE IF body.raised = "TimeoutError" THEN Returned(NoCurve)
    ELSE IF IsException(body.raised) THEN Returned(NoCurve)
    ELSE body

V4FetchCurve(responses) == Handled(V4FetchBody(responses))

\* V5 _transform_response.
V5TransformResponse(responses) ==
    IF responses.tracking = "unexpected_shape" THEN Raised("AttributeError")
    ELSE Returned(responses.data)

\* V5 fetch_curve, the body of the try: the GET raises inside it.
V5FetchBody(responses) ==
    IF IsExceptionObject(responses.tracking)
    THEN Raised(ExceptionOf(responses.tracking))
    ELSE IF Status(responses.tracking) # 200 THEN Returned(NoCurve)
    ELSE IF responses.tracking = "undecodable" THEN Raised("JSONDecodeError")
    ELSE V5TransformResponse(responses)

V5FetchCurve(responses) == Handled(V5FetchBody(responses))

\* The answers of the V4 upstream to one fetch: an outcome per endpoint and
\* the tracking body ("+1H" and "+2H" pending at 65150).  The optional
\* endpoints take every pair of outcomes beside a good tracking answer;
\* beside a failed one, whose check or decoding ends the call before they
\* are looked at, they answer well.
V4Responses ==
    { r \in [provider : {"V4"}, tracking : Outcomes, yesterday : Outcomes,
             history : Outcomes,
             data : { c \in V4SmallCurves : ~c.curve[1].is_actual }] :
        r.tracking # "ok" => r.yesterday = "ok" /\ r.history = "ok" }

\* The answers of the V5 upstream to one fetch.
V5Responses ==
    { [provider |-> "V5", tracking |-> tr, data |-> d] :
      tr \in Outcomes,
      d \in { c \in V5UpstreamCurves : c.current_price = 65150 } }

\* An exception left fetch_curve inside the loop: except Exception: log,
\* sleep(60).
OnFetchRaised(t, p) ==
    /\ Runs(t, p)
    /\ task_pc[t] = "fetch"
    /\ task_pc' = [task_pc EXCEPT ![t] = "backoff"]
    /\ task_outcome' = [task_outcome EXCEPT ![t] = "fetch_raised"]
    /\ UNCHANGED <<storeVars, wsVars, polling_task, broadcast_callback, last_curve, curve_history, task_provider,
                   task_cancel, stopping, handed, appends>>

\* V4: the upstream answered and fetch_curve ended; the loop goes on with
\* what the call made of the answers.
V4FetchReturned(t, responses) ==
    /\ Runs(t, "V4")
    /\ task_pc[t] = "fetch"
    /\ upstream' = responses
    /\ UNCHANGED <<summary, store_calls, last_call, returned>>
    /\ LET result == V4FetchCurve(responses)
       IN  IF result.raised # "none" THEN OnFetchRaised(t, "V4")
           ELSE IF result.value = NoCurve THEN V4OnNone(t)
           ELSE V4OnCurve(t, result.value)

\* V5: the same.
V5FetchReturned(t, responses) ==
    /\ Runs(t, "V5")
    /\ task_pc[t] = "fetch"
    /\ upstream' = responses
    /\ UNCHANGED <<summary, store_calls, last_call, returned>>
    /\ LET result == V5FetchCurve(responses)
       IN  IF result.raised # "none" THEN OnFetchRaised(t, "V5")
           ELSE IF result.value = NoCurve THEN V5OnNone(t)
           ELSE V5OnCurve(t, result.value)

(***************************************************************************)
(* AccuracyStorage (accuracy_storage.py)                                   *)
(*                                                                         *)
(* A table is the sequence of its rows in rowid order; the AUTOINCREMENT   *)
(* id of a row is its position's rank.  Instants are clock readings        *)
(* 0..MaxTime; percentages are integers in hundredths of a percent and     *)
(* the error and accuracy figures are in thousandths of a percent.         *)
(***************************************************************************)

\* Python truthiness of a number or None.
Truthy(x) == x # None /\ x # 0

\* anchor_timestamp.split('T')[0]
AnchorDate(anchor_timestamp) == anchor_timestamp[1]

\* PRIMARY KEY of daily_anchors.
SameAnchorKey(r, row) == r.anchor_date = row.anchor_date

\* UNIQUE(anchor_date, horizon) of predictions and of accuracy_metrics.
SameHorizonKey(r, row) ==
    r.anchor_date = row.anchor_date /\ r.horizon = row.horizon

\* The uniqueness constraint of the named table.
SameKey(table_name, r, row) ==
    IF table_name = "daily_anchors"
    THEN SameAnchorKey(r, row)
    ELSE SameHorizonKey(r, row)

\* Mutant of InsertOrReplace: a plain INSERT into a table without the
\* uniqueness constraint.
InsertOnly(table_name, table, row) == Append(table, row)

\* Mutant of InsertOrReplace: the INSERT into daily_anchors is left out.
InsertSkipsAnchors(table_name, table, row) ==
    IF table_name = "daily_anchors" THEN table
    ELSE Append(SelectSeq(table, LAMBDA r : ~SameKey(table_name, r, row)), row)

\* INSERT OR REPLACE: the rows that conflict on the key are deleted, then
\* the row is inserted with a new rowid.
InsertOrReplace(table_name, table, row) ==
    Append(SelectSeq(table, LAMBDA r : ~SameKey(table_name, r, row)), row)

\* abs(target_price - x) / target_price * 100
ErrorPct(target_price, x) ==
    LET diff == IF target_price >= x THEN target_price - x ELSE x - target_price
    IN  (diff * 100 * 1000) \div target_price

\* 100 - error_pct
Accuracy(error_pct) == 100 * 1000 - error_pct

\* The accuracy_metrics row computed for a realized point.
MetricRow(anchor_date, horizon, target_price, original_price, stabilized_price, at) ==
    LET original_error_pct == ErrorPct(target_price, original_price)
        has_stabilized == Truthy(stabilized_price)
        stabilized_error_pct ==
            IF has_stabilized THEN ErrorPct(target_price, stabilized_price) ELSE None
    IN  [anchor_date |-> anchor_date,
         horizon |-> horizon,
         original_error_pct |-> original_error_pct,
         stabilized_error_pct |-> stabilized_error_pct,
         original_accuracy |-> Accuracy(original_error_pct),
         stabilized_accuracy |->
             IF has_stabilized THEN Accuracy(stabilized_error_pct) ELSE None,
         calculated_at |-> at]

\* The predictions row written for a point that has an original prediction.
PredictionRow(anchor_date, horizon, orig, target_price, pct_change, is_actual, at) ==
    [anchor_date |-> anchor_date,
     horizon |-> horizon,
     original_price |-> DictGet(orig, "original_price", None),
     original_pct |-> DictGet(orig, "original_pct", None),
     stabilized_price |-> DictGet(orig, "stabilized_price", None),
     stabilized_pct |-> DictGet(orig, "stabilized_pct", None),
     actual_price |-> IF is_actual THEN target_price ELSE None,
     actual_pct |-> IF is_actual THEN pct_change ELSE None,
     became_actual_at |-> IF is_actual THEN at ELSE None]

\* Mutant of MetricGuard: the metric is computed for every realized point.
MetricGuardMissing(target_price) == TRUE

\* "and target_price > 0" of the guard around the metric computation.
MetricGuard(target_price) == target_price > 0

\* One pass of the loop body of store_v4_data over a point.  txn is the open
\* transaction: the three tables and whether an exception was raised.
StorePoint(txn, anchor_date, point, original_preds, at) ==
    LET horizon == DictGet(point, "horizon", "")
        target_price == DictGet(point, "target_price", 0)
        pct_change == DictGet(point, "pct_change", 0)
        is_actual == DictGet(point, "is_actual", FALSE)
        orig == DictGet(original_preds, horizon, <<>>)
        original_price == DictGet(orig, "original_price", None)
        stabilized_price == DictGet(orig, "stabilized_price", None)
        row == PredictionRow(anchor_date, horizon, orig, target_price,
                             pct_change, is_actual, at)
    IN  IF horizon = "" THEN txn                 \* if not horizon: continue
        ELSE IF ~Truthy(original_price) THEN txn
        ELSE IF row.original_pct = None
             THEN [txn EXCEPT !.raised = TRUE]   \* NOT NULL constraint failed
        ELSE LET written == [txn EXCEPT !.predictions =
                                InsertOrReplace("predictions", @, row)]
             IN  IF ~is_actual THEN written
                 ELSE IF target_price = None
                      THEN [written EXCEPT !.raised = TRUE]   \* None > 0: TypeError
                 ELSE IF ~MetricGuard(target_price) THEN written
                 ELSE IF target_price = 0
                      THEN [written EXCEPT !.raised = TRUE]   \* ZeroDivisionError
                 ELSE [written EXCEPT !.accuracy_metrics =
                          InsertOrReplace("accuracy_metrics", @,
                              MetricRow(anchor_date, horizon, target_price,
                                        original_price, stabilized_price, at))]

\* for point in forward_curve: the loop stops at the first exception.
RECURSIVE StorePoints(_, _, _, _, _)
StorePoints(txn, anchor_date, points, original_preds, at) ==
    IF points = <<>> \/ txn.raised THEN txn
    ELSE StorePoints(StorePoint(txn, anchor_date, Head(points), original_preds, at),
                     anchor_date, Tail(points), original_preds, at)

\* The points built from a 'forward_curve' dict when 'curve' is empty, in
\* the catalog's order.
RECURSIVE PointsOfForwardCurve(_, _)
PointsOfForwardCurve(fc_dict, horizons) ==
    IF horizons = <<>> THEN <<>>
    ELSE LET horizon == Head(horizons)
             rest == PointsOfForwardCurve(fc_dict, Tail(horizons))
         IN  IF horizon \in DOMAIN fc_dict
             THEN <<[horizon |-> horizon,
                     target_price |-> DictGet(fc_dict[horizon], "price", None),
                     pct_change |-> DictGet(fc_dict[horizon], "pct_change", None),
                     is_actual |-> DictGet(fc_dict[horizon], "is_actual", FALSE)]>>
                  \o rest
             ELSE rest

\* The daily_anchors row of a call.
AnchorRow(curve_data, at) ==
    [anchor_date |-> AnchorDate(curve_data.anchor_timestamp),
     anchor_timestamp |-> curve_data.anchor_timestamp,
     anchor_price |-> DictGet(curve_data, "current_price", 0),
     regime |-> DictGet(curve_data, "regime", "UNKNOWN"),
     direction |-> DictGet(curve_data, "direction", "UNKNOWN"),
     curve_quality |-> DictGet(curve_data, "curve_quality", 0),
     created_at |-> at]

\* Mutant of Rollback: the writes made before the exception are kept.
RollbackKeepsWrites(db, txn) ==
    [daily_anchors |-> txn.daily_anchors,
     predictions |-> txn.predictions,
     accuracy_metrics |-> txn.accuracy_metrics]

\* except Exception: conn.rollback(): the database as it was before the call.
Rollback(db, txn) == db

\* store_v4_data on the database db at the clock reading at: the database it
\* leaves and whether it committed.
StoreV4Data(db, curve_data, at) ==
    IF curve_data = <<>> \/ DictGet(curve_data, "anchor_timestamp", <<>>) = <<>>
    THEN [db |-> db, committed |-> FALSE]
    ELSE LET anchor_row == AnchorRow(curve_data, at)
             begun == [daily_anchors |-> db.daily_anchors,
                       predictions |-> db.predictions,
                       accuracy_metrics |-> db.accuracy_metrics,
                       raised |-> FALSE]
             anchored ==
                 IF anchor_row.anchor_price = None
                 THEN [begun EXCEPT !.raised = TRUE]   \* NOT NULL constraint failed
                 ELSE [begun EXCEPT !.daily_anchors =
                          InsertOrReplace("daily_anchors", @, anchor_row)]
             curve == DictGet(curve_data, "curve", <<>>)
             forward_curve ==
                 IF curve # <<>> THEN curve
                 ELSE PointsOfForwardCurve(DictGet(curve_data, "forward_curve", <<>>),
                                           HORIZONS)
             original_preds == DictGet(curve_data, "original_predictions", <<>>)
             stored == StorePoints(anchored, AnchorDate(curve_data.anchor_timestamp),
                                   forward_curve, original_preds, at)
         IN  IF stored.raised
             THEN [db |-> Rollback(db, stored), committed |-> FALSE]
             ELSE [db |-> [daily_anchors |-> stored.daily_anchors,
                           predictions |-> stored.predictions,
                           accuracy_metrics |-> stored.accuracy_metrics],
                   committed |-> TRUE]                 \* conn.commit()

\* The three tables as one value.
Database ==
    [daily_anchors |-> daily_anchors,
     predictions |-> predictions,
     accuracy_metrics |-> accuracy_metrics]

\* What a call of store_v4_data with the result leaves in the tables.
Stored(curve_data, result) ==
    /\ daily_anchors' = result.db.daily_anchors
    /\ predictions' = result.db.predictions
    /\ accuracy_metrics' = result.db.accuracy_metrics
    /\ last_committed' =
           IF result.committed
           THEN (AnchorDate(curve_data.anchor_timestamp) :>
                    [anchor_timestamp |-> curve_data.anchor_timestamp,
                     current_price |-> curve_data.current_price,
                     regime |-> curve_data.regime,
                     direction |-> curve_data.direction,
                     curve_quality |-> curve_data.curve_quality])
                @@ last_committed
           ELSE last_committed

\* A call of store_v4_data.
StoreCall(curve_data) ==
    \E result \in {StoreV4Data(Database, curve_data, now)} :
        /\ Stored(curve_data, result)
        /\ UNCHANGED <<now, pollVars, wsVars, obsVars>>

\* How the call ended: at an early return, at conn.commit() or at
\* conn.rollback().
CallOutcome(curve_data, result) ==
    IF curve_data = <<>> \/ DictGet(curve_data, "anchor_timestamp", <<>>) = <<>>
    THEN "returned"
    ELSE IF result.committed THEN "committed" ELSE "rolled_back"

\* A call of store_v4_data, observed: its input and outcome are recorded.
ObservedStoreCall(curve_data) ==
    /\ store_calls < MaxCalls
    /\ \E result \in {StoreV4Data(Database, curve_data, now)} :
           /\ Stored(curve_data, result)
           /\ last_call' = [outcome |-> CallOutcome(curve_data, result),
                            curve_data |-> curve_data]
    /\ store_calls' = store_calls + 1
    /\ UNCHANGED <<now, pollVars, wsVars, upstream, summary, returned>>

\* The clock advances between calls.
Tick ==
    /\ now < MaxTime
    /\ now' = now + 1
    /\ UNCHANGED <<daily_anchors, predictions, accuracy_metrics, last_committed,
                   pollVars, wsVars, obsVars>>

(***************************************************************************)
(* get_accuracy_summary                                                    *)
(*                                                                         *)
(* calculated_at is an ISO instant and date('now', '-N days') a calendar   *)
(* date; as text, the instant is >= the date exactly when its calendar     *)
(* day is.  round() is left out: the figures are integers already.         *)
(***************************************************************************)

\* The calendar day of a clock reading.
Day(at) == at \div TicksPerDay

\* WHERE calculated_at >= date('now', '-' || ? || ' days')
InWindow(row, at, days) == Day(row.calculated_at) >= Day(at) - days

RECURSIVE SumOf(_, _)
SumOf(rows, column) ==
    IF rows = <<>> THEN 0 ELSE Head(rows)[column] + SumOf(Tail(rows), column)

\* AVG(column)
AvgOf(rows, column) == SumOf(rows, column) \div Len(rows)

\* MIN(column), MAX(column)
MinOf(rows, column) ==
    CHOOSE x \in { rows[i][column] : i \in DOMAIN rows } :
        \A i \in DOMAIN rows : x <= rows[i][column]

MaxOf(rows, column) ==
    CHOOSE x \in { rows[i][column] : i \in DOMAIN rows } :
        \A i \in DOMAIN rows : x >= rows[i][column]

\* da.regime of the JOIN daily_anchors da ON am.anchor_date = da.anchor_date
RegimeOf(anchors, row) ==
    LET i == CHOOSE j \in DOMAIN anchors : anchors[j].anchor_date = row.anchor_date
    IN  anchors[i].regime

\* The dict get_accuracy_summary builds from the selected metric rows.
Summarize(rows, anchors, days) ==
    LET horizons == { rows[i].horizon : i \in DOMAIN rows }
        joined == SelectSeq(rows, LAMBDA r :
                      \E j \in DOMAIN anchors : anchors[j].anchor_date = r.anchor_date)
        regimes == { RegimeOf(anchors, joined[i]) : i \in DOMAIN joined }
        overall_mape == IF rows = <<>> THEN 0 ELSE AvgOf(rows, "original_error_pct")
    IN  [overall_mape |-> overall_mape,
         overall_accuracy |-> 100 * 1000 - overall_mape,
         horizon_stats |->
             [h \in horizons |->
                 LET group == SelectSeq(rows, LAMBDA r : r.horizon = h)
                 IN  [count |-> Len(group),
                      mape |-> AvgOf(group, "original_error_pct"),
                      min_error |-> MinOf(group, "original_error_pct"),
                      max_error |-> MaxOf(group, "original_error_pct"),
                      accuracy |-> AvgOf(group, "original_accuracy")]],
         regime_stats |->
             [g \in regimes |->
                 LET group == SelectSeq(joined, LAMBDA r : RegimeOf(anchors, r) = g)
                 IN  [count |-> Len(group),
                      mape |-> AvgOf(group, "original_error_pct")]],
         days_analyzed |-> days]

\* get_accuracy_summary(days) at the clock reading at.
GetAccuracySummary(db, days, at) ==
    Summarize(SelectSeq(db.accuracy_metrics, LAMBDA r : InWindow(r, at, days)),
              db.daily_anchors, days)

\* A call of get_accuracy_summary; what it returned is kept.
SummaryCall(days) ==
    /\ summary' = [days |-> days, at |-> now,
                   result |-> GetAccuracySummary(Database, days, now)]
    /\ UNCHANGED <<storeVars, pollVars, wsVars, upstream, store_calls, last_call, returned>>

\* The clock of the summary specification advances.
DayTick ==
    /\ now < MaxDays * TicksPerDay - 1
    /\ now' = now + 1
    /\ UNCHANGED <<daily_anchors, predictions, accuracy_metrics, last_committed,
                   pollVars, wsVars, obsVars>>

(***************************************************************************)
(* Inputs of store_v4_data                                                 *)
(***************************************************************************)

AnchorInfos ==
    { [current_price |-> 65000, regime |-> "trending", direction |-> "up",
       curve_quality |-> 80],
      [current_price |-> 65010, regime |-> "ranging", direction |-> "down",
       curve_quality |-> 60] }

CurveData(anchor_timestamp, info, points, original_preds) ==
    [anchor_timestamp |-> anchor_timestamp,
     current_price |-> info.current_price,
     regime |-> info.regime,
     direction |-> info.direction,
     curve_quality |-> info.curve_quality,
     curve |-> points,
     original_predictions |-> original_preds]

\* original_predictions entries for "+1H": none, two different originals,
\* and one with a stabilized figure.
OriginalsFor1H ==
    { <<>>,
      [original_price |-> 65200, original_pct |-> 31],
      [original_price |-> 65200, original_pct |-> 31,
       stabilized_price |-> 65180, stabilized_pct |-> 28],
      [original_price |-> 65300, original_pct |-> 46] }

\* One-point curves of the first day, under two anchor instants with
\* different anchor facts: "+1H" pending, or realized at one of two prices.
OneHorizonInputs ==
    { CurveData(IF info.regime = "trending" THEN FirstAnchor ELSE SameDayAnchor,
                info,
                <<[horizon |-> "+1H", target_price |-> point[1], pct_change |-> 26,
                   is_actual |-> point[2]]>>,
                IF orig = <<>> THEN <<>> ELSE ("+1H" :> orig)) :
      info \in AnchorInfos,
      point \in {<<65170, FALSE>>, <<65170, TRUE>>, <<65190, TRUE>>},
      orig \in OriginalsFor1H }

\* Two-point curves of the next day.
TwoHorizonInputs ==
    { CurveData(NextDayAnchor, CHOOSE info \in AnchorInfos : info.regime = "trending",
                <<[horizon |-> "+1H", target_price |-> 65170, pct_change |-> 26,
                   is_actual |-> act],
                  [horizon |-> "+2H", target_price |-> 65250, pct_change |-> 38,
                   is_actual |-> FALSE]>>,
                ("+1H" :> [original_price |-> 65200, original_pct |-> 31])
                @@ ("+2H" :> [original_price |-> 65400, original_pct |-> 62])) :
      act \in BOOLEAN }

\* Calls that do not commit: no anchor_timestamp (early return), and an
\* original prediction without original_pct (NOT NULL constraint).
FailingInputs ==
    { [current_price |-> 65010, regime |-> "ranging", direction |-> "down",
       curve_quality |-> 60, curve |-> <<>>, original_predictions |-> <<>>],
      CurveData(FirstAnchor, CHOOSE info \in AnchorInfos : info.regime = "ranging",
                <<[horizon |-> "+1H", target_price |-> 65170, pct_change |-> 26,
                   is_actual |-> TRUE]>>,
                ("+1H" :> [original_price |-> 65300])) }

\* The upstream tracking shape: a 'forward_curve' dict instead of 'curve'.
ForwardCurveInputs ==
    { [anchor_timestamp |-> NextDayAnchor,
       current_price |-> 65000, regime |-> "trending", direction |-> "up",
       curve_quality |-> 80,
       forward_curve |-> ("+1H" :> [price |-> 65190, pct_change |-> 29,
                                    is_actual |-> TRUE]),
       original_predictions |-> ("+1H" :> [original_price |-> 65200,
                                           original_pct |-> 31])] }

\* Two realized points, "+1H" with a stabilized figure, "+2H" without.
WithAndWithoutStabilized ==
    CurveData(FirstAnchor, CHOOSE info \in AnchorInfos : info.regime = "trending",
              <<[horizon |-> "+1H", target_price |-> 65170, pct_change |-> 26,
                 is_actual |-> TRUE],
                [horizon |-> "+2H", target_price |-> 65250, pct_change |-> 38,
                 is_actual |-> TRUE]>>,
              ("+1H" :> [original_price |-> 65200, original_pct |-> 31,
                         stabilized_price |-> 65180, stabilized_pct |-> 28])
              @@ ("+2H" :> [original_price |-> 65400, original_pct |-> 62]))

\* A realized point whose stabilized figure is 0.
ZeroStabilized ==
    CurveData(FirstAnchor, CHOOSE info \in AnchorInfos : info.regime = "trending",
              <<[horizon |-> "+1H", target_price |-> 100, pct_change |-> 26,
                 is_actual |-> TRUE]>>,
              ("+1H" :> [original_price |-> 101, original_pct |-> 31,
                         stabilized_price |-> 0, stabilized_pct |-> 0]))

\* "+1H" realized at target_price 0, "+2H" realized at a positive price.
ZeroTarget ==
    CurveData(FirstAnchor, CHOOSE info \in AnchorInfos : info.regime = "ranging",
              <<[horizon |-> "+1H", target_price |-> 0, pct_change |-> 0,
                 is_actual |-> TRUE],
                [horizon |-> "+2H", target_price |-> 65250, pct_change |-> 38,
                 is_actual |-> TRUE]>>,
              ("+1H" :> [original_price |-> 65200, original_pct |-> 31])
              @@ ("+2H" :> [original_price |-> 65400, original_pct |-> 62]))

\* "+1H" is written, then "+2H" fails the NOT NULL constraint on original_pct.
NotNullAfterWrites ==
    CurveData(FirstAnchor, CHOOSE info \in AnchorInfos : info.regime = "ranging",
              <<[horizon |-> "+1H", target_price |-> 65190, pct_change |-> 29,
                 is_actual |-> TRUE],
                [horizon |-> "+2H", target_price |-> 65250, pct_change |-> 38,
                 is_actual |-> FALSE]>>,
              ("+1H" :> [original_price |-> 65300, original_pct |-> 46])
              @@ ("+2H" :> [original_price |-> 65400]))

\* The 'forward_curve' shape: "+1H" is written, then "+2H", realized with
\* no 'price', fails at None > 0.
TypeErrorAfterWrites ==
    [anchor_timestamp |-> NextDayAnchor,
     current_price |-> 65010, regime |-> "ranging", direction |-> "down",
     curve_quality |-> 60,
     forward_curve |-> ("+1H" :> [price |-> 65190, pct_change |-> 29,
                                  is_actual |-> TRUE])
                       @@ ("+2H" :> [pct_change |-> 38, is_actual |-> TRUE]),
     original_predictions |-> ("+1H" :> [original_price |-> 65300,
                                         original_pct |-> 46])
                              @@ ("+2H" :> [original_price |-> 65400,
                                            original_pct |-> 62])]

\* One realized point of the next day, under the other regime.
NextDayRealized ==
    CurveData(NextDayAnchor, CHOOSE info \in AnchorInfos : info.regime = "ranging",
              <<[horizon |-> "+1H", target_price |-> 65190, pct_change |-> 29,
                 is_actual |-> TRUE]>>,
              ("+1H" :> [original_price |-> 65300, original_pct |-> 46]))

\* The calls that feed the summary.
SummaryInputs == { WithAndWithoutStabilized, NextDayRealized }

\* A curve as V4 _transform_response builds it: no 'original_predictions'
\* at the top, each point carrying its own original_price / original_pct
\* (None where the upstream had no original for the horizon).
InternalCurve ==
    [type |-> "v4_forward_curve",
     anchor_timestamp |-> FirstAnchor,
     current_price |-> 65000,
     direction |-> "up",
     regime |-> "trending",
     curve_quality |-> 80,
     curve |-> <<[horizon |-> "+1H", target_price |-> 65170, pct_change |-> 26,
                  is_actual |-> TRUE, original_price |-> 65200,
                  original_pct |-> 31, stabilized_price |-> 65180],
                 [horizon |-> "+2H", target_price |-> 65250, pct_change |-> 38,
                  is_actual |-> FALSE, original_price |-> None,
                  original_pct |-> None, stabilized_price |-> 65250]>>,
     has_yesterday |-> FALSE,
     has_history |-> TRUE]

\* A numeric field of an upstream body is absent, null or a number.
Shapes == {"absent", "null", "number"}

\* The number an upstream field carries when it carries one.
NumberOf(field) ==
    CASE field \in {"price", "target_price"} -> 65150
      [] field = "pct_change" -> 23
      [] field = "lower_90" -> 65000
      [] field = "upper_90" -> 65300
      [] field = "current_price" -> 65010
      [] field = "hours_elapsed" -> 2
      [] field = "curve_quality" -> 80
      [] field = "confidence_score" -> 70

\* The object whose fields have the given shapes.
ShapedDict(shape) ==
    [f \in { g \in DOMAIN shape : shape[g] # "absent" } |->
        IF shape[f] = "null" THEN None ELSE NumberOf(f)]

\* V4 tracking bodies with one pending point, "+1H": every shape of its
\* numeric fields and of the top-level numeric fields.
V4TrackingBodies ==
    { ShapedDict(top)
      @@ [anchor_timestamp |-> FirstAnchor, direction |-> "up", regime |-> "trending",
          forward_curve |-> ("+1H" :> (ShapedDict(point) @@ [is_actual |-> FALSE]))] :
      point \in [{"price", "pct_change", "lower_90", "upper_90"} -> Shapes],
      top \in [{"current_price", "hours_elapsed", "curve_quality"} -> Shapes] }

\* V5 prediction bodies with one point, "+1H".
V5PredictionBodies ==
    { ShapedDict(top)
      @@ [direction |-> "UP", forward_curve |-> ("+1H" :> ShapedDict(point))] :
      point \in [{"target_price", "pct_change", "lower_90", "upper_90"} -> Shapes],
      top \in [{"current_price", "confidence_score"} -> Shapes] }

\* What a history entry holds for a horizon: nothing, a pending prediction
\* at one of two prices, or the actual.
HorizonShapes == {"absent", "pending_a", "pending_b", "actual"}

\* The point of a history entry's forward_curve.
HistoryPoint(shape) ==
    CASE shape = "pending_a" -> [price |-> 65150, is_actual |-> FALSE]
      [] shape = "pending_b" -> [price |-> 65180, is_actual |-> FALSE]
      [] shape = "actual" -> [price |-> 65170, is_actual |-> TRUE]

\* A history entry: its timestamp and its forward_curve.
HistoryEntry(timestamp, shapes) ==
    [timestamp |-> timestamp,
     forward_curve |-> [h \in { g \in DOMAIN shapes : shapes[g] # "absent" } |->
                           HistoryPoint(shapes[h])]]

\* The entries the upstream history can hold: "+1H" in every shape, "+2H"
\* absent or pending.
HistoryEntries ==
    { HistoryEntry(ts, ("+1H" :> s1) @@ ("+2H" :> s2)) :
      ts \in 1..MaxEntries, s1 \in HorizonShapes, s2 \in {"absent", "pending_a"} }

\* history_data: None, or a list of up to MaxEntries entries with different
\* timestamps in any order of arrival.
Histories ==
    {NoBody}
    \cup { Body(h) : h \in { g \in UNION { [1..n -> HistoryEntries] : n \in 0..MaxEntries } :
                              \A i, j \in DOMAIN g :
                                  i # j => g[i].timestamp # g[j].timestamp } }

\* The forward_curve of the current tracking answer: each horizon pending
\* at 65150 or actual at 65170.
CurrentCurves ==
    { [h \in CatalogHorizons |->
          IF actual[h] THEN [price |-> 65170, is_actual |-> TRUE]
          ELSE [price |-> 65150, is_actual |-> FALSE]] :
      actual \in [CatalogHorizons -> BOOLEAN] }

\* The tracking answer around a forward_curve.
TrackingBody(forward_curve) ==
    [anchor_timestamp |-> FirstAnchor, current_price |-> 65010,
     forward_curve |-> forward_curve]

\* The calls observed one by one.
CallInputs ==
    { WithAndWithoutStabilized, ZeroStabilized, ZeroTarget, NotNullAfterWrites,
      TypeErrorAfterWrites, InternalCurve }
    \cup { c \in FailingInputs : "anchor_timestamp" \notin DOMAIN c }

StoreInputs ==
    OneHorizonInputs \cup TwoHorizonInputs \cup FailingInputs \cup ForwardCurveInputs


(***************************************************************************)
(* ForwardCurveServer: ws_clients, handle_websocket, broadcast             *)
(***************************************************************************)

\* handle_websocket up to its first await after self.ws_clients.add(ws).
\* The initial-curve sends that follow touch no shared state.
WsConnect(ws) ==
    /\ conn_state[ws] = "new"
    /\ ws_clients' = ws_clients \cup {ws}
    /\ conn_state' = [conn_state EXCEPT ![ws] = "open"]
    /\ conn_alive' = [conn_alive EXCEPT ![ws] = TRUE]
    /\ UNCHANGED <<bc_pc, bc_size, bc_members, bc_seen, bc_current, bc_disconnected,
                   pollVars, storeVars, obsVars>>

\* get_last_curve: the provider's _last_curve.
GetLastCurve(p) == last_curve[p]

\* handle_websocket up to its read loop, observed: the add to ws_clients and
\* the initial state sent to the new client, the value of get_last_curve of
\* each provider (nothing is sent for a provider whose value is None).
WsConnectSendsInitial(ws) ==
    /\ returned = NoReturn
    /\ conn_state[ws] = "new"
    /\ ws_clients' = ws_clients \cup {ws}
    /\ conn_state' = [conn_state EXCEPT ![ws] = "open"]
    /\ conn_alive' = [conn_alive EXCEPT ![ws] = TRUE]
    /\ returned' = [function |-> "handle_websocket",
                    ws |-> ws,
                    last_curve |-> GetLastCurve("V5"),
                    last_v4_curve |-> GetLastCurve("V4")]
    /\ UNCHANGED <<bc_pc, bc_size, bc_members, bc_seen, bc_current, bc_disconnected,
                   pollVars, storeVars, upstream, summary, store_calls, last_call>>

\* The peer goes away: from now on send_str to the connection raises.
WsConnectionLost(ws) ==
    /\ conn_state[ws] = "open"
    /\ conn_alive[ws]
    /\ conn_alive' = [conn_alive EXCEPT ![ws] = FALSE]
    /\ UNCHANGED <<ws_clients, conn_state, bc_pc, bc_size, bc_members, bc_seen,
                   bc_current, bc_disconnected, pollVars, storeVars, obsVars>>

\* handle_websocket after its read loop ended: finally: discard(ws).
WsDisconnect(ws) ==
    /\ conn_state[ws] = "open"
    /\ ~conn_alive[ws]
    /\ ws_clients' = ws_clients \ {ws}
    /\ conn_state' = [conn_state EXCEPT ![ws] = "closed"]
    /\ UNCHANGED <<conn_alive, bc_pc, bc_size, bc_members, bc_seen, bc_current,
                   bc_disconnected, pollVars, storeVars, obsVars>>

\* broadcast up to its first await: return if there are no clients; else
\* make the iterator over self.ws_clients and await the first send_str.
BroadcastBegin(b) ==
    /\ bc_pc[b] = "idle"
    /\ IF ws_clients = {}
       THEN UNCHANGED <<bc_pc, bc_size, bc_members, bc_seen, bc_current, bc_disconnected>>
       ELSE \E ws \in ws_clients :
               /\ bc_pc' = [bc_pc EXCEPT ![b] = "sending"]
               /\ bc_size' = [bc_size EXCEPT ![b] = Cardinality(ws_clients)]
               /\ bc_members' = [bc_members EXCEPT ![b] = ws_clients]
               /\ bc_seen' = [bc_seen EXCEPT ![b] = {ws}]
               /\ bc_current' = [bc_current EXCEPT ![b] = ws]
               /\ bc_disconnected' = [bc_disconnected EXCEPT ![b] = {}]
    /\ UNCHANGED <<ws_clients, conn_state, conn_alive, pollVars, storeVars, obsVars>>

\* The awaited send_str returned or raised; the for loop goes on.  The set
\* iterator raises RuntimeError when len(ws_clients) is not what it was when
\* the iterator was made (caught by the outer except, which skips the
\* cleanup).  Over a set of the same size but other members the iterator
\* may reach any member it has not reached, or none.
BroadcastSendDone(b) ==
    /\ bc_pc[b] = "sending"
    /\ LET disconnected ==
               IF conn_alive[bc_current[b]]
               THEN bc_disconnected[b]
               ELSE bc_disconnected[b] \cup {bc_current[b]}
           rest == ws_clients \ bc_seen[b]
           finish ==
               /\ ws_clients' = ws_clients \ disconnected
               /\ bc_pc' = [bc_pc EXCEPT ![b] = "idle"]
               /\ bc_current' = [bc_current EXCEPT ![b] = NoConnection]
               /\ bc_disconnected' = [bc_disconnected EXCEPT ![b] = disconnected]
               /\ UNCHANGED bc_seen
       IN  IF Cardinality(ws_clients) # bc_size[b]
           THEN /\ bc_pc' = [bc_pc EXCEPT ![b] = "idle"]
                /\ bc_current' = [bc_current EXCEPT ![b] = NoConnection]
                /\ bc_disconnected' = [bc_disconnected EXCEPT ![b] = disconnected]
                /\ UNCHANGED <<ws_clients, bc_seen>>
           ELSE \/ /\ rest = {} \/ ws_clients # bc_members[b]
                   /\ finish
                \/ \E ws \in rest :
                       /\ bc_seen' = [bc_seen EXCEPT ![b] = @ \cup {ws}]
                       /\ bc_current' = [bc_current EXCEPT ![b] = ws]
                       /\ bc_disconnected' = [bc_disconnected EXCEPT ![b] = disconnected]
                       /\ UNCHANGED <<ws_clients, bc_pc>>
    /\ UNCHANGED <<conn_state, conn_alive, bc_size, bc_members, pollVars, storeVars, obsVars>>

(***************************************************************************)
(* Specifications                                                          *)
(***************************************************************************)

\* The state after both providers are constructed.
Init ==
    /\ polling_task = [p \in Providers |-> NoTask]
    /\ broadcast_callback = [p \in Providers |-> FALSE]
    /\ last_curve = [p \in Providers |-> NoCurve]
    /\ curve_history = <<>>
    /\ task_provider = [t \in TaskIds |-> "V4"]
    /\ task_pc = [t \in TaskIds |-> "unborn"]
    /\ task_cancel = [t \in TaskIds |-> FALSE]
    /\ stopping = [p \in Providers |-> NoTask]
    /\ handed = [p \in Providers |-> NoCurve]
    /\ task_outcome = [t \in TaskIds |-> "none"]
    /\ appends = 0
    /\ daily_anchors = <<>>
    /\ predictions = <<>>
    /\ accuracy_metrics = <<>>
    /\ now = 0
    /\ last_committed = <<>>
    /\ ws_clients = {}
    /\ conn_state = [ws \in Connections |-> "new"]
    /\ conn_alive = [ws \in Connections |-> FALSE]
    /\ bc_pc = [b \in Broadcasters |-> "idle"]
    /\ bc_size = [b \in Broadcasters |-> 0]
    /\ bc_members = [b \in Broadcasters |-> {}]
    /\ bc_seen = [b \in Broadcasters |-> {}]
    /\ bc_current = [b \in Broadcasters |-> NoConnection]
    /\ bc_disconnected = [b \in Broadcasters |-> {}]
    /\ upstream = NoResponses
    /\ summary = NoSummary
    /\ store_calls = 0
    /\ last_call = NoCall
    /\ returned = NoReturn

\* Any sequence of start_polling / stop_polling calls on both providers,
\* against the two-curve upstream.
Next ==
    \/ \E p \in Providers : StartPolling(p)
    \/ \E p \in Providers : StopPollingCall(p)
    \/ \E p \in Providers : StopPollingReturn(p)
    \/ \E t \in TaskIds : TaskBegin(t)
    \/ \E t \in TaskIds : TaskCancelled(t)
    \/ \E t \in TaskIds : \E c \in V4SmallCurves : V4FetchedCurve(t, c)
    \/ \E t \in TaskIds : V4FetchedNone(t)
    \/ \E t \in TaskIds : V4BroadcastReturned(t)
    \/ \E t \in TaskIds : V4BroadcastRaised(t)
    \/ \E t \in TaskIds : V4SleepEnded(t)
    \/ \E t \in TaskIds : \E c \in V5UpstreamCurves : V5FetchedCurve(t, c)
    \/ \E t \in TaskIds : V5FetchedNone(t)
    \/ \E t \in TaskIds : V5BroadcastReturned(t)
    \/ \E t \in TaskIds : V5BroadcastRaised(t)
    \/ \E t \in TaskIds : V5SleepEnded(t)

Spec == Init /\ [][Next]_vars

\* The V4 poller as the server runs it (started once, never stopped),
\* against one anchor's full upstream.
LedgerNext ==
    \/ ServerStart("V4")
    \/ \E t \in TaskIds : TaskBegin(t)
    \/ \E t \in TaskIds : \E c \in V4LedgerCurves : V4FetchedCurve(t, c)
    \/ \E t \in TaskIds : V4FetchedNone(t)
    \/ \E t \in TaskIds : V4BroadcastReturned(t)
    \/ \E t \in TaskIds : V4BroadcastRaised(t)
    \/ \E t \in TaskIds : V4SleepEnded(t)

SpecLedger == Init /\ [][LedgerNext]_vars

\* The V4 poller as the server runs it, across an anchor rollover.
RolloverNext ==
    \/ ServerStart("V4")
    \/ \E t \in TaskIds : TaskBegin(t)
    \/ \E t \in TaskIds : \E c \in V4RolloverCurves : V4FetchedAcrossRollover(t, c)
    \/ \E t \in TaskIds : V4FetchedNone(t)
    \/ \E t \in TaskIds : V4BroadcastReturned(t)
    \/ \E t \in TaskIds : V4BroadcastRaised(t)
    \/ \E t \in TaskIds : V4SleepEnded(t)

SpecRollover == Init /\ [][RolloverNext]_vars

\* The V4 poller as the server runs it against the two-curve upstream,
\* while one client connects.
InitialNext ==
    \/ ServerStart("V4")
    \/ \E t \in TaskIds : TaskBegin(t)
    \/ \E t \in TaskIds : \E c \in V4SmallCurves : V4FetchedCurve(t, c)
    \/ \E t \in TaskIds : V4FetchedNone(t)
    \/ \E t \in TaskIds : V4BroadcastReturned(t)
    \/ \E t \in TaskIds : V4BroadcastRaised(t)
    \/ \E t \in TaskIds : V4SleepEnded(t)
    \/ \E ws \in Connections : WsConnectSendsInitial(ws)

SpecInitial == Init /\ [][InitialNext]_vars

\* Any sequence of store_v4_data calls while the clock advances.
StoreNext ==
    \/ \E curve_data \in StoreInputs : StoreCall(curve_data)
    \/ Tick

SpecStore == Init /\ [][StoreNext]_vars

\* store_v4_data called with one input after another, each call observed.
CallsNext ==
    \/ \E curve_data \in CallInputs : ObservedStoreCall(curve_data)
    \/ Tick

SpecCalls == Init /\ [][CallsNext]_vars

\* Metrics are stored as the days pass, and summaries are asked for.
SummaryNext ==
    \/ \E curve_data \in SummaryInputs : StoreCall(curve_data)
    \/ DayTick
    \/ \E days \in 1..MaxDays : SummaryCall(days)

SpecSummary == Init /\ [][SummaryNext]_vars

\* Connections come and go while the broadcasters broadcast.
WsNext ==
    \/ \E ws \in Connections : WsConnect(ws)
    \/ \E ws \in Connections : WsConnectionLost(ws)
    \/ \E ws \in Connections : WsDisconnect(ws)
    \/ \E b \in Broadcasters : BroadcastBegin(b)
    \/ \E b \in Broadcasters : BroadcastSendDone(b)

SpecWs == Init /\ [][WsNext]_vars

\* Both pollers as the server runs them (each started once, never stopped),
\* against the two-curve upstream.  The event loop resumes every task whose
\* await has completed: the fetches carry a 10-15 s timeout, the sleeps end,
\* and the callback is taken to return or raise.
LiveNext ==
    \/ \E p \in Providers : ServerStart(p)
    \/ \E t \in TaskIds : TaskBegin(t)
    \/ \E t \in TaskIds : \E c \in V4SmallCurves : V4FetchedCurve(t, c)
    \/ \E t \in TaskIds : V4FetchedNone(t)
    \/ \E t \in TaskIds : V4BroadcastReturned(t)
    \/ \E t \in TaskIds : V4BroadcastRaised(t)
    \/ \E t \in TaskIds : V4SleepEnded(t)
    \/ \E t \in TaskIds : \E c \in V5UpstreamCurves : V5FetchedCurve(t, c)
    \/ \E t \in TaskIds : V5FetchedNone(t)
    \/ \E t \in TaskIds : V5BroadcastReturned(t)
    \/ \E t \in TaskIds : V5BroadcastRaised(t)
    \/ \E t \in TaskIds : V5SleepEnded(t)

TaskStep(t) ==
    \/ TaskBegin(t)
    \/ \E c \in V4SmallCurves : V4FetchedCurve(t, c)
    \/ V4FetchedNone(t)
    \/ V4BroadcastReturned(t)
    \/ V4BroadcastRaised(t)
    \/ V4SleepEnded(t)
    \/ \E c \in V5UpstreamCurves : V5FetchedCurve(t, c)
    \/ V5FetchedNone(t)
    \/ V5BroadcastReturned(t)
    \/ V5BroadcastRaised(t)
    \/ V5SleepEnded(t)

SpecLive ==
    /\ Init
    /\ [][LiveNext]_vars
    /\ \A t \in TaskIds : WF_vars(TaskStep(t))

\* The server's life: each provider started once, polled, and stopped.
ServerNext ==
    \/ LiveNext
    \/ \E t \in TaskIds : TaskCancelled(t)
    \/ \E p \in Providers : StopPollingCall(p)
    \/ \E p \in Providers : StopPollingReturn(p)

SpecServer == Init /\ [][ServerNext]_vars

\* The pollers against an upstream that answers each fetch in any way, with
\* a broadcast callback that returns.
FetchNext ==
    \/ \E p \in Providers : ServerStart(p)
    \/ \E t \in TaskIds : TaskBegin(t)
    \/ \E t \in TaskIds : \E r \in V4Responses : V4FetchReturned(t, r)
    \/ \E t \in TaskIds : V4BroadcastReturned(t)
    \/ \E t \in TaskIds : V4SleepEnded(t)
    \/ \E t \in TaskIds : \E r \in V5Responses : V5FetchReturned(t, r)
    \/ \E t \in TaskIds : V5BroadcastReturned(t)
    \/ \E t \in TaskIds : V5SleepEnded(t)

SpecFetch == Init /\ [][FetchNext]_vars

\* The wait computation at every minute and second of the hour.
CadenceNext ==
    \E p \in Providers : \E after \in {"curve", "failed"} :
        \E minute \in 0..59 : \E second \in 0..59 :
            WaitComputed(p, after, minute, second)

SpecCadence == Init /\ [][CadenceNext]_vars

\* _transform_response of both providers over bodies with missing and null
\* numeric fields.
TransformNext ==
    \/ \E data \in V4TrackingBodies : Transformed("V4", data, NoBody, NoBody)
    \/ \E data \in V5PredictionBodies : Transformed("V5", data, NoBody, NoBody)

SpecTransform == Init /\ [][TransformNext]_vars

\* _extract_stabilized_from_history, alone and inside _transform_response,
\* over every history and current curve.
ExtractNext ==
    \/ \E h \in Histories : \E c \in CurrentCurves : Extracted(h, c)
    \/ \E h \in Histories : \E c \in CurrentCurves :
           Transformed("V4", TrackingBody(c), NoBody, h)

SpecExtract == Init /\ [][ExtractNext]_vars

(***************************************************************************)
(* Claims                                                                  *)
(***************************************************************************)

Max(S) == CHOOSE x \in S : \A y \in S : y <= x
Min2(a, b) == IF a <= b THEN a ELSE b

\* The ledger positions whose snapshot holds the horizon as pending.
PendingIn(horizon) ==
    { i \in 1..Len(curve_history) : horizon \in DOMAIN curve_history[i].predictions }

\* C1: in the curve handed to the V4 callback, a realized point carries as
\* last_stabilized_price the price of the most recent ledger snapshot that
\* holds its horizon as pending, and carries no last_stabilized_price when
\* no ledger snapshot does.
C1_StabilizedIsLastPending ==
    handed["V4"] # NoCurve =>
        \A i \in 1..Len(handed["V4"].curve) :
            LET point == handed["V4"].curve[i]
                at == PendingIn(point.horizon)
            IN  point.is_actual =>
                    IF at = {}
                    THEN "last_stabilized_price" \notin DOMAIN point
                    ELSE /\ "last_stabilized_price" \in DOMAIN point
                         /\ point.last_stabilized_price =
                                curve_history[Max(at)].predictions[point.horizon].price

\* C1's case: pending at 65150, then at 65180, then realized: 65180.
C1_Witness ==
    /\ Len(curve_history) = 3
    /\ "+1H" \in DOMAIN curve_history[1].predictions
    /\ curve_history[1].predictions["+1H"].price = 65150
    /\ "+1H" \in DOMAIN curve_history[2].predictions
    /\ curve_history[2].predictions["+1H"].price = 65180
    /\ "+1H" \notin DOMAIN curve_history[3].predictions
    /\ handed["V4"] # NoCurve
    /\ handed["V4"].curve[1].is_actual
    /\ handed["V4"].curve[1].last_stabilized_price = 65180

\* A V4 task leaves fetch_curve with a curve: the step that calls
\* _store_curve_snapshot.
StoreStep ==
    \E t \in TaskIds :
        /\ task_provider[t] = "V4"
        /\ task_pc[t] = "fetch"
        /\ task_pc'[t] = "broadcast"

\* C2: the ledger never holds more than max_history_size snapshots; after n
\* appends it holds min(n, max_history_size) of them; each
\* _store_curve_snapshot call puts the cycle's snapshot last, keeps the
\* others in order and drops only the oldest, only when the ledger was
\* full; nothing else changes the ledger.
C2_LedgerBoundedFifo ==
    [][ /\ Len(curve_history) <= max_history_size
        /\ Len(curve_history') <= max_history_size
        /\ Len(curve_history') = Min2(appends', max_history_size)
        /\ IF StoreStep
           THEN LET kept == IF Len(curve_history) < max_history_size
                            THEN curve_history
                            ELSE Tail(curve_history)
                IN  /\ Len(curve_history') = Len(kept) + 1
                    /\ SubSeq(curve_history', 1, Len(kept)) = kept
                    /\ curve_history'[Len(curve_history')] = Snapshot(last_curve'["V4"])
           ELSE curve_history' = curve_history ]_vars

\* C2's case: two snapshots have been evicted from a full ledger.
C2_Witness ==
    /\ appends = max_history_size + 2
    /\ Len(curve_history) = max_history_size
    /\ curve_history[1] # curve_history[2]

\* C5: a cycle whose fetch_curve returned None (the task goes from the fetch
\* straight to the aligned sleep) leaves the ledger and every provider's
\* get_last_curve() as they were and hands nothing to a callback.
C5_FailedFetchFrame ==
    [][ \A t \in TaskIds :
            (task_pc[t] = "fetch" /\ task_pc'[t] = "sleep") =>
                /\ curve_history' = curve_history
                /\ last_curve' = last_curve
                /\ handed' = handed
                /\ \A u \in TaskIds :
                       task_pc'[u] = "broadcast" => task_pc[u] = "broadcast" ]_vars

\* C5's case: a V4 fetch failed after an earlier cycle had filled the ledger.
C5_Witness ==
    \E t \in TaskIds :
        /\ task_provider[t] = "V4"
        /\ task_outcome[t] = "failed"
        /\ task_pc[t] = "sleep"
        /\ Len(curve_history) >= 1
        /\ last_curve["V4"] # NoCurve

\* C6: every started poll task is in a fetch attempt again and again,
\* whatever fetch failures and callback exceptions occur.
C6_PollerKeepsFetching ==
    \A t \in TaskIds :
        [](task_pc[t] # "unborn" => <>(task_pc[t] = "fetch"))

\* C6's case: a task fetching again after a cycle that raised.
C6_Witness ==
    \E t \in TaskIds :
        /\ task_outcome[t] = "raised"
        /\ task_pc[t] = "fetch"

\* C7: at most one cycle (fetch, or ledger append and broadcast) of a
\* provider is in progress at any time.
C7_OneCycleInProgress ==
    \A p \in Providers :
        Cardinality({ t \in TaskIds :
                        /\ task_provider[t] = p
                        /\ ~task_cancel[t]
                        /\ task_pc[t] \in {"fetch", "broadcast"} }) <= 1

\* The prediction rows of a table state that share a row's key.
SameKeyRows(table, row) ==
    { i \in DOMAIN table : SameHorizonKey(table[i], row) }

\* C3: a prediction row that exists keeps its original_price and
\* original_pct across every store_v4_data call.
C3_OriginalWriteOnce ==
    [][ \A i \in DOMAIN predictions :
            \A j \in SameKeyRows(predictions', predictions[i]) :
                /\ predictions'[j].original_price = predictions[i].original_price
                /\ predictions'[j].original_pct = predictions[i].original_pct ]_vars

\* C4: a prediction row whose actual_price, actual_pct and became_actual_at
\* are set keeps all three across every store_v4_data call.
C4_ActualSetOnce ==
    [][ \A i \in DOMAIN predictions :
            ( /\ predictions[i].actual_price # None
              /\ predictions[i].actual_pct # None
              /\ predictions[i].became_actual_at # None ) =>
                /\ SameKeyRows(predictions', predictions[i]) # {}
                /\ \A j \in SameKeyRows(predictions', predictions[i]) :
                       /\ predictions'[j].actual_price = predictions[i].actual_price
                       /\ predictions'[j].actual_pct = predictions[i].actual_pct
                       /\ predictions'[j].became_actual_at =
                              predictions[i].became_actual_at ]_vars

\* C8: while a broadcast stays suspended in a send_str of its for loop,
\* ws_clients does not change.
C8_NoChangeWhileIterating ==
    [][ \A b \in Broadcasters :
            ( /\ bc_pc[b] = "sending"
              /\ bc_pc'[b] = "sending"
              /\ bc_current'[b] = bc_current[b]
              /\ bc_seen'[b] = bc_seen[b] ) =>
                ws_clients' = ws_clients ]_vars

\* A row without its timestamp columns.
WithoutTimestamps(row) ==
    [k \in DOMAIN row \ {"created_at", "became_actual_at", "calculated_at"} |-> row[k]]

\* The rows of a table without their rowids and timestamps.
RowValues(table) == { WithoutTimestamps(table[i]) : i \in DOMAIN table }

\* Two database states with as many rows per table and the same row values.
SameRows(db1, db2) ==
    /\ Len(db1.daily_anchors) = Len(db2.daily_anchors)
    /\ Len(db1.predictions) = Len(db2.predictions)
    /\ Len(db1.accuracy_metrics) = Len(db2.accuracy_metrics)
    /\ RowValues(db1.daily_anchors) = RowValues(db2.daily_anchors)
    /\ RowValues(db1.predictions) = RowValues(db2.predictions)
    /\ RowValues(db1.accuracy_metrics) = RowValues(db2.accuracy_metrics)

\* C9: from every reachable database, store_v4_data called with a curve and
\* called again with the same curve when the clock reads MaxTime leaves the
\* rows, timestamps and rowids aside, that the first call left.
C9_StoreTwiceIsStoreOnce ==
    \A curve_data \in StoreInputs :
        \E once \in {StoreV4Data(Database, curve_data, now).db} :
            \E twice \in {StoreV4Data(once, curve_data, MaxTime).db} :
                SameRows(twice, once)

\* C9's case: a realized horizon with its metric is stored and the clock has
\* moved on, so that a second call rewrites rows with other timestamps.
C9_Witness ==
    /\ \E i \in DOMAIN accuracy_metrics : accuracy_metrics[i].calculated_at < now
    /\ \E i \in DOMAIN predictions :
           /\ predictions[i].actual_price # None
           /\ predictions[i].became_actual_at < now

\* No two rows of the table share its key.
Unique(table_name, table) ==
    \A i, j \in DOMAIN table : SameKey(table_name, table[i], table[j]) => i = j

\* C10: no two daily_anchors rows share an anchor date, no two predictions
\* rows and no two accuracy_metrics rows share (anchor date, horizon); and
\* the anchor row of a date holds the anchor facts of the latest committed
\* call for that date.
C10_UniqueRowsLatestAnchor ==
    /\ Unique("daily_anchors", daily_anchors)
    /\ Unique("predictions", predictions)
    /\ Unique("accuracy_metrics", accuracy_metrics)
    /\ { daily_anchors[i].anchor_date : i \in DOMAIN daily_anchors }
           = DOMAIN last_committed
    /\ \A i \in DOMAIN daily_anchors :
           LET row == daily_anchors[i]
               call == last_committed[row.anchor_date]
           IN  /\ row.anchor_timestamp = call.anchor_timestamp
               /\ row.anchor_price = call.current_price
               /\ row.regime = call.regime
               /\ row.direction = call.direction
               /\ row.curve_quality = call.curve_quality

\* C10's case: the first day's anchor row was rewritten by a later call
\* (its prediction row is older than it) and the next day has rows too.
C10_Witness ==
    /\ Len(daily_anchors) = 2
    /\ Len(predictions) = 3
    /\ \E i \in DOMAIN daily_anchors : \E j \in DOMAIN predictions :
           /\ daily_anchors[i].anchor_date = predictions[j].anchor_date
           /\ daily_anchors[i].anchor_timestamp = SameDayAnchor
           /\ predictions[j].became_actual_at # None
           /\ predictions[j].became_actual_at < daily_anchors[i].created_at

\* An observed call of store_v4_data happens in this step.
CallStep == store_calls' = store_calls + 1

RowsUnder(table, anchor_date, horizon) ==
    { table[i] : i \in { j \in DOMAIN table :
                            /\ table[j].anchor_date = anchor_date
                            /\ table[j].horizon = horizon } }

\* The points of the observed call's 'curve' list.
CallPoints(call) ==
    { call.curve_data.curve[i] : i \in DOMAIN call.curve_data.curve }

\* The point has an original prediction in the call's original_predictions.
HasOriginal(call, point) ==
    LET original_preds == DictGet(call.curve_data, "original_predictions", <<>>)
    IN  /\ point.horizon \in DOMAIN original_preds
        /\ "original_price" \in DOMAIN original_preds[point.horizon]

\* C12: a call whose curve has a realized point with target_price 0 is
\* committed; the metric rows under that point's key are after the call
\* what they were before it; every point with an original prediction has
\* its prediction row, and every other realized point its metric row of
\* this call.
C12_ZeroTargetSkipsMetric ==
    [][ (CallStep /\ "curve" \in DOMAIN last_call'.curve_data) =>
          LET call == last_call'
              anchor_date == AnchorDate(call.curve_data.anchor_timestamp)
          IN  \A zero \in CallPoints(call) :
                (zero.is_actual /\ zero.target_price = 0) =>
                    /\ call.outcome = "committed"
                    /\ RowsUnder(accuracy_metrics', anchor_date, zero.horizon)
                           = RowsUnder(accuracy_metrics, anchor_date, zero.horizon)
                    /\ \A point \in CallPoints(call) :
                           HasOriginal(call, point) =>
                               /\ \E row \in RowsUnder(predictions', anchor_date,
                                                         point.horizon) :
                                      /\ row.actual_price =
                                             IF point.is_actual
                                             THEN point.target_price ELSE None
                                      /\ row.became_actual_at =
                                             IF point.is_actual THEN now ELSE None
                               /\ (point.is_actual /\ point.target_price > 0) =>
                                      \E row \in RowsUnder(accuracy_metrics',
                                                            anchor_date, point.horizon) :
                                          row.calculated_at = now ]_vars

\* C12's case: the zero-target call came after a call that left a "+1H"
\* metric row; that row is still the earlier call's, and "+2H" has this
\* call's.
C12_Witness ==
    /\ last_call.outcome = "committed"
    /\ last_call.curve_data = ZeroTarget
    /\ now = 1
    /\ \E row \in RowsUnder(accuracy_metrics, AnchorDate(FirstAnchor), "+1H") :
           row.calculated_at = 0
    /\ \E row \in RowsUnder(accuracy_metrics, AnchorDate(FirstAnchor), "+2H") :
           row.calculated_at = 1
    /\ \E row \in RowsUnder(predictions, AnchorDate(FirstAnchor), "+1H") :
           row.actual_price = 0

\* The metric rows calculated within the trailing `days` days that end at
\* the clock reading at.
TrailingWindowRows(metrics, at, days) ==
    SelectSeq(metrics, LAMBDA r :
        /\ r.calculated_at >= at - days * TicksPerDay
        /\ r.calculated_at <= at)

\* C13: what get_accuracy_summary(days) returns is the summary of exactly
\* the metric rows calculated within the trailing `days` days ending at
\* the call.
C13_SummaryOfTrailingWindow ==
    [][ summary' # summary =>
            summary'.result =
                Summarize(TrailingWindowRows(accuracy_metrics, summary'.at,
                                             summary'.days),
                          daily_anchors, summary'.days) ]_vars

\* |a - x| / a * 100, in thousandths of a percent.
AbsPctError(a, x) == ((IF a >= x THEN a - x ELSE x - a) * 100 * 1000) \div a

\* C14: after a committed call, every realized point with a positive
\* actual price a and an original price o has a metric row with
\* original_error_pct = |a - o| / a * 100 and original_accuracy = 100 - it;
\* with a stabilized price s in the call the stabilized figures are those
\* of s, and without one both are null.
C14_MetricFigures ==
    [][ (CallStep /\ last_call'.outcome = "committed"
                  /\ "curve" \in DOMAIN last_call'.curve_data) =>
          LET call == last_call'
              anchor_date == AnchorDate(call.curve_data.anchor_timestamp)
          IN  \A point \in CallPoints(call) :
                (point.is_actual /\ point.target_price > 0 /\ HasOriginal(call, point)) =>
                  LET a == point.target_price
                      orig == call.curve_data.original_predictions[point.horizon]
                  IN  \E row \in RowsUnder(accuracy_metrics', anchor_date, point.horizon) :
                        /\ row.original_error_pct = AbsPctError(a, orig.original_price)
                        /\ row.original_accuracy = 100 * 1000 - row.original_error_pct
                        /\ IF "stabilized_price" \in DOMAIN orig
                           THEN /\ row.stabilized_error_pct =
                                       AbsPctError(a, orig.stabilized_price)
                                /\ row.stabilized_accuracy =
                                       100 * 1000 - row.stabilized_error_pct
                           ELSE /\ row.stabilized_error_pct = None
                                /\ row.stabilized_accuracy = None ]_vars

\* A stop_polling of the provider has returned: the task it holds was
\* cancelled and awaited.
Stopped(p) ==
    /\ polling_task[p] # NoTask
    /\ stopping[p] = NoTask
    /\ task_pc[polling_task[p]] = "done"

\* A fetch, ledger append or broadcast of the provider happens in this step.
Activity(p) ==
    \/ last_curve'[p] # last_curve[p]
    \/ handed'[p] # handed[p]
    \/ p = "V4" /\ curve_history' # curve_history
    \/ \E t \in TaskIds :
           /\ task_provider'[t] = p
           /\ task_pc'[t] # task_pc[t]
           /\ task_pc'[t] \in {"fetch", "broadcast", "sleep", "backoff"}

\* C15: when stop_polling returns, the task it awaited has ended; once a
\* stop_polling has returned the provider fetches, appends and broadcasts
\* no more; and stop_polling of a provider that holds no task waits for
\* nothing.
C15_StopEndsPolling ==
    [][ \A p \in Providers :
          /\ (stopping[p] # NoTask /\ stopping'[p] = NoTask) =>
                 task_pc'[stopping[p]] = "done"
          /\ Stopped(p) => ~Activity(p)
          /\ (polling_task[p] = NoTask /\ polling_task'[p] = NoTask) =>
                 stopping'[p] = NoTask ]_vars

\* The task that polls provider p.
Poller(p) == polling_task[p]

\* A fetch of provider p ended in this step.
FetchStep(p) ==
    /\ Poller(p) # NoTask
    /\ task_pc[Poller(p)] = "fetch"
    /\ task_pc'[Poller(p)] # "fetch"

\* C16: whatever the upstream answers (connection error, timeout, non-200
\* status, undecodable body, body of an unexpected shape, on any endpoint),
\* fetch_curve of either provider ends by returning a curve or None: the
\* poll loop goes on to the broadcast or to the aligned sleep, and never
\* meets an exception out of the fetch.
C16_FetchReturnsCurveOrNone ==
    [][\A p \in Providers :
          FetchStep(p) =>
              /\ task_outcome'[Poller(p)] \in {"curve", "failed"}
              /\ task_pc'[Poller(p)] \in {"broadcast", "sleep"}
              /\ task_outcome'[Poller(p)] = "failed" => last_curve'[p] = last_curve[p]]_vars

\* Both providers have turned a failing answer into None and sleep until
\* the next poll: V5 has just met a timeout of its GET, V4 a failure before.
C16_Witness ==
    /\ Poller("V4") # NoTask /\ Poller("V5") # NoTask
    /\ upstream.provider = "V5"
    /\ upstream.tracking = "timeout"
    /\ task_pc[Poller("V5")] = "sleep"
    /\ task_outcome[Poller("V5")] = "failed"
    /\ task_pc[Poller("V4")] = "sleep"
    /\ task_outcome[Poller("V4")] = "failed"
    /\ last_curve["V4"] # NoCurve

\* The outcomes of an optional call: exception, timeout, non-200 status,
\* 200 with an undecodable body, or a good answer.
OptionalOutcomes ==
    {"connection_error", "timeout", "status_error", "undecodable", "ok"}

\* C17: when the tracking call answers 200 with a decodable body, V4
\* fetch_curve returns a curve for every outcome of the yesterday and history
\* calls; a failed optional call only makes has_yesterday or has_history
\* false.
C17_OptionalCallsNeverFailTheFetch ==
    [][(/\ FetchStep("V4")
        /\ upstream'.tracking = "ok"
        /\ upstream'.yesterday \in OptionalOutcomes
        /\ upstream'.history \in OptionalOutcomes)
       => /\ task_outcome'[Poller("V4")] = "curve"
          /\ last_curve'["V4"].has_yesterday = (upstream'.yesterday = "ok")
          /\ last_curve'["V4"].has_history = (upstream'.history = "ok")]_vars

\* C18: when a broadcast completes, every subscriber whose send raised
\* during it has been removed from ws_clients, and if a send raised, every
\* subscriber that was registered when the broadcast began and still is has
\* been sent the message: one failed send does not keep it from the rest.
C18_FailedSendersDropped ==
    [][\A b \in Broadcasters :
          (bc_pc[b] = "sending" /\ bc_pc'[b] = "idle") =>
              /\ bc_disconnected'[b] \cap ws_clients' = {}
              /\ bc_disconnected'[b] # {} =>
                     (bc_members[b] \cap ws_clients') \subseteq bc_seen'[b]]_vars

\* C19: every curve the V4 poller has handed to the broadcast callback has
\* been submitted to the accuracy store: each realized horizon of the
\* published curve has a predictions row under the curve's anchor date.
C19_PublishedCurveWasStored ==
    handed["V4"] # NoCurve =>
        \A i \in DOMAIN handed["V4"].curve :
            handed["V4"].curve[i].is_actual =>
                RowsUnder(predictions,
                          AnchorDate(handed["V4"].anchor_timestamp),
                          handed["V4"].curve[i].horizon) # {}

\* The call's input has the shape of the V4 fetcher's curve: an anchor
\* timestamp and a 'curve' list whose points carry original_price.
InternalShape(curve_data) ==
    /\ "anchor_timestamp" \in DOMAIN curve_data
    /\ "curve" \in DOMAIN curve_data
    /\ \A i \in DOMAIN curve_data.curve :
           "original_price" \in DOMAIN curve_data.curve[i]

\* C20: after a store_v4_data call with a curve in the V4 fetcher's shape,
\* predictions has a row under the curve's anchor date for every point whose
\* original_price is present, and the rows under the key of a point without
\* one are what they were before the call.
C20_InternalCurveIsRecorded ==
    [][(CallStep /\ InternalShape(last_call'.curve_data)) =>
          LET curve_data == last_call'.curve_data
              anchor_date == AnchorDate(curve_data.anchor_timestamp)
          IN  \A i \in DOMAIN curve_data.curve :
                  LET point == curve_data.curve[i]
                  IN  IF point.original_price # None
                      THEN RowsUnder(predictions', anchor_date, point.horizon) # {}
                      ELSE RowsUnder(predictions', anchor_date, point.horizon)
                             = RowsUnder(predictions, anchor_date, point.horizon)]_vars

\* C21: in every curve the V4 poller has handed to the broadcast callback,
\* each pending point carries a last_stabilized_price, and it is the point's
\* own target_price.
C21_PendingStabilizedIsTarget ==
    handed["V4"] # NoCurve =>
        \A i \in DOMAIN handed["V4"].curve :
            LET point == handed["V4"].curve[i]
            IN  ~point.is_actual =>
                    /\ "last_stabilized_price" \in DOMAIN point
                    /\ point.last_stabilized_price = point.target_price

\* C21's case: "+1H" was pending at 65150 and is published pending at 65180.
C21_Witness ==
    /\ Len(curve_history) >= 2
    /\ "+1H" \in DOMAIN curve_history[1].predictions
    /\ curve_history[1].predictions["+1H"].price = 65150
    /\ handed["V4"] # NoCurve
    /\ ~handed["V4"].curve[1].is_actual
    /\ handed["V4"].curve[1].target_price = 65180
    /\ handed["V4"].curve[1].last_stabilized_price = 65180

\* C22: a V4 cycle whose broadcast did not take place leaves no snapshot in
\* the ledger: while the ledger has not been trimmed, after a cycle that a
\* cancellation ended inside the broadcast callback the ledger holds fewer
\* snapshots than the cycles appended.
C22_NoSnapshotOfUnpublishedCycle ==
    \A t \in TaskIds :
        ( /\ task_provider[t] = "V4"
          /\ task_outcome[t] = "cancelled_in_broadcast"
          /\ appends <= max_history_size ) =>
            Len(curve_history) < appends

\* The wall clock in seconds of the hour.
SecondOfHour(minute, second) == minute * 60 + second

\* The first minute after `minute` that is a multiple of 5, :00 for :55..:59.
NextMark(minute) ==
    LET marks == { m \in 1..60 : m % 5 = 0 /\ m > minute }
    IN  (CHOOSE m \in marks : \A n \in marks : m <= n) % 60

\* C23: at every minute and second of the hour, after a failed fetch as
\* after a successful one, seconds_to_wait is positive and at most 300 plus
\* the provider's offset (V4 6..305, V5 3..302), and the sleep ends exactly
\* the offset after the next minute that is a multiple of 5.
C23_WaitEndsAtNextMark ==
    returned.function = "seconds_to_wait" =>
        LET offset == IF returned.provider = "V4" THEN 5 ELSE 2
        IN  /\ returned.result >= offset + 1
            /\ returned.result <= 300 + offset
            /\ (SecondOfHour(returned.minute, returned.second) + returned.result) % 3600
                 = SecondOfHour(NextMark(returned.minute), offset)

\* C23's case: a failed V4 fetch at :57:30 waits 155 s, to :00:05.
C23_Witness ==
    /\ returned.function = "seconds_to_wait"
    /\ returned.provider = "V4"
    /\ returned.after = "failed"
    /\ returned.minute = 57
    /\ returned.second = 30
    /\ returned.result = 155

\* The number a field of an upstream object carries, 0 when the field is
\* absent or null.
NumberOrZero(d, field) ==
    IF field \in DOMAIN d /\ d[field] # None THEN d[field] ELSE 0

\* C24: the transformed curve of either provider carries, for the point's
\* price, pct_change, lower_90 and upper_90 and for the top-level
\* current_price (V4 also hours_elapsed and curve_quality), the upstream's
\* number, and 0, never null, where the upstream field is absent or null.
C24_MissingNumbersBecomeZero ==
    returned.function = "_transform_response" =>
        LET data == returned.data
            result == returned.result
            point == data.forward_curve["+1H"]
            price == IF returned.provider = "V4" THEN "price" ELSE "target_price"
        IN  /\ Len(result.curve) = 1
            /\ result.curve[1].target_price = NumberOrZero(point, price)
            /\ result.curve[1].pct_change = NumberOrZero(point, "pct_change")
            /\ result.curve[1].lower_90 = NumberOrZero(point, "lower_90")
            /\ result.curve[1].upper_90 = NumberOrZero(point, "upper_90")
            /\ result.current_price = NumberOrZero(data, "current_price")
            /\ returned.provider = "V4" =>
                   /\ result.hours_elapsed = NumberOrZero(data, "hours_elapsed")
                   /\ result.curve_quality = NumberOrZero(data, "curve_quality")

\* The point's last_stabilized_price, None when it carries none.
StabilizedOf(point) == DictGet(point, "last_stabilized_price", None)

\* C25: from one published V4 curve to the next of the same anchor, a
\* horizon that is realized in both carries the same last_stabilized_price
\* (or none in both), however many cycles have passed.
C25_RealizedStabilizedIsFixed ==
    [][( /\ handed["V4"] # NoCurve
         /\ handed'["V4"] # NoCurve
         /\ handed'["V4"].anchor_timestamp = handed["V4"].anchor_timestamp ) =>
           \A i \in DOMAIN handed["V4"].curve :
               ( /\ handed["V4"].curve[i].is_actual
                 /\ handed'["V4"].curve[i].is_actual ) =>
                   StabilizedOf(handed'["V4"].curve[i])
                     = StabilizedOf(handed["V4"].curve[i])]_vars

\* The ledger snapshots that hold the horizon as pending.
HoldingPending(history, horizon) ==
    { j \in DOMAIN history : horizon \in DOMAIN history[j].predictions }

\* C26: in a successful V4 cycle the snapshot is appended first, the curve
\* is enriched against the ledger that holds it, and the callback is entered
\* with the enriched copy: the ledger's last snapshot is the cycle's, the
\* message's history_size is the ledger length, each point's evolution_count
\* is the number of ledger snapshots that hold its horizon as pending (the
\* cycle's own among them for a pending point), and the task is in the
\* callback.
C26_AppendEnrichBroadcast ==
    [][StoreStep =>
          LET curve == last_curve'["V4"]
              message == handed'["V4"]
          IN  /\ curve_history'[Len(curve_history')] = Snapshot(curve)
              /\ message.history_size = Len(curve_history')
              /\ Len(message.curve) = Len(curve.curve)
              /\ \A i \in DOMAIN curve.curve :
                     /\ message.curve[i].horizon = curve.curve[i].horizon
                     /\ message.curve[i].target_price = curve.curve[i].target_price
                     /\ message.curve[i].is_actual = curve.curve[i].is_actual
                     /\ message.curve[i].evolution_count =
                            Cardinality(HoldingPending(curve_history',
                                                       curve.curve[i].horizon))
                     /\ ~curve.curve[i].is_actual =>
                            Len(curve_history') \in
                                HoldingPending(curve_history', curve.curve[i].horizon)]_vars

\* C26's case: the third cycle publishes "+1H" pending for the third time
\* and "+2H" pending for the first.
C26_Witness ==
    /\ \E t \in TaskIds : task_provider[t] = "V4" /\ task_pc[t] = "broadcast"
    /\ handed["V4"] # NoCurve
    /\ handed["V4"].history_size = 3
    /\ handed["V4"].curve[1].evolution_count = 3
    /\ handed["V4"].curve[2].evolution_count = 1
    /\ ~handed["V4"].curve[2].is_actual

\* The horizons of the curve's points that are pending.
PendingHorizons(curve) ==
    { curve.curve[i].horizon : i \in { j \in DOMAIN curve.curve : ~curve.curve[j].is_actual } }

\* C27: the snapshot a cycle appends holds exactly the horizons that are
\* pending in the cycle's curve, each with that point's target price and
\* original price; a realized horizon is not in it.  (The snapshots already
\* in the ledger are not changed, C2.)
C27_SnapshotHoldsPendingOnly ==
    [][StoreStep =>
          LET curve == last_curve'["V4"]
              snapshot == curve_history'[Len(curve_history')]
          IN  /\ DOMAIN snapshot.predictions = PendingHorizons(curve)
              /\ \A i \in DOMAIN curve.curve :
                     ~curve.curve[i].is_actual =>
                        /\ snapshot.predictions[curve.curve[i].horizon].price
                             = curve.curve[i].target_price
                        /\ snapshot.predictions[curve.curve[i].horizon].original_price
                             = curve.curve[i].original_price]_vars

\* C27's case: the latest snapshot was taken of a curve with "+1H" pending
\* at 65180 and "+2H" realized.
C27_Witness ==
    /\ curve_history # <<>>
    /\ last_curve["V4"] # NoCurve
    /\ ~last_curve["V4"].curve[1].is_actual
    /\ last_curve["V4"].curve[1].target_price = 65180
    /\ last_curve["V4"].curve[2].is_actual
    /\ DOMAIN curve_history[Len(curve_history)].predictions = {"+1H"}
    /\ curve_history[Len(curve_history)].predictions["+1H"].price = 65180

\* The keys _add_history_to_curve adds to its copies.
EnrichmentKeys == {"last_stabilized_price", "evolution_count", "history_size"}

C29_PendingStabilizedIsCurrent ==
    /\ returned.function = "_extract_stabilized_from_history" =>
           \A h \in CatalogHorizons :
               ( /\ h \in DOMAIN returned.current_curve
                 /\ ~returned.current_curve[h].is_actual ) =>
                   /\ h \in DOMAIN returned.result
                   /\ returned.result[h].price = returned.current_curve[h].price
    /\ (returned.function = "_transform_response" /\ returned.provider = "V4") =>
           \A i \in DOMAIN returned.result.curve :
               ~returned.result.curve[i].is_actual =>
                   returned.result.curve[i].stabilized_price
                     = returned.result.curve[i].target_price

\* The positions of the history entries that hold the horizon and not as
\* actual.
Predicting(history, horizon) ==
    { i \in DOMAIN history :
        /\ horizon \in DOMAIN history[i].forward_curve
        /\ ~history[i].forward_curve[horizon].is_actual }

C31_StabilizedFromOwnAnchor ==
    handed["V4"] # NoCurve =>
        \A i \in 1..Len(handed["V4"].curve) :
            LET point == handed["V4"].curve[i]
                at == PendingIn(point.horizon)
            IN  (point.is_actual /\ "last_stabilized_price" \in DOMAIN point) =>
                    /\ at # {}
                    /\ curve_history[Max(at)].anchor_timestamp
                         = handed["V4"].anchor_timestamp

\* C32: when a broadcast call ends, every connection that was in ws_clients
\* from its start to its end and whose own send did not fail has been sent
\* the message, whatever connected, disconnected or was removed by another
\* broadcast while this one was suspended in a send.
C32_StayingSubscriberIsServed ==
    [][\A b \in Broadcasters :
           (bc_pc[b] = "sending" /\ bc_pc'[b] = "idle") =>
               \A ws \in (bc_members[b] \cap ws_clients) \ bc_disconnected'[b] :
                   ws \in bc_seen[b]]_vars

\* C33: every accuracy_metrics row has a predictions row of the same anchor
\* date and horizon whose actual_price is set and greater than zero: there is
\* no metric for a horizon the store holds as pending.
C33_MetricHasRealizedPrediction ==
    \A i \in 1..Len(accuracy_metrics) :
        \E j \in 1..Len(predictions) :
            /\ SameHorizonKey(predictions[j], accuracy_metrics[i])
            /\ predictions[j].actual_price # None
            /\ predictions[j].actual_price > 0

\* C34: the V4 curve sent to a newly connected client as initial state, the
\* value of get_last_curve, is the V4 curve most recently handed to the
\* broadcast, with each point's last_stabilized_price and evolution_count
\* and the curve's history_size.
C34_InitialStateIsLastBroadcast ==
    [][(returned'.function = "handle_websocket" /\ returned' # returned
        /\ handed["V4"] # NoCurve) =>
            returned'.last_v4_curve = handed["V4"]]_vars

\* The sum of the count fields of a stats dict.
RECURSIVE CountOver(_, _)
CountOver(stats, keys) ==
    IF keys = {} THEN 0
    ELSE LET k == CHOOSE x \in keys : TRUE
         IN  stats[k].count + CountOver(stats, keys \ {k})

CountTotal(stats) == CountOver(stats, DOMAIN stats)

\* The table has a daily_anchors row for every anchor_date it holds.
Anchored(table) ==
    \A i \in 1..Len(table) :
        \E j \in 1..Len(daily_anchors) :
            daily_anchors[j].anchor_date = table[i].anchor_date

\* C35: every predictions row and every accuracy_metrics row has a
\* daily_anchors row of its anchor_date, and in what get_accuracy_summary
\* returned the per-regime counts add up to the total of the per-horizon
\* counts.
C35_RowsAnchoredCountsAgree ==
    /\ Anchored(predictions)
    /\ Anchored(accuracy_metrics)
    /\ summary # NoSummary =>
           CountTotal(summary.result.regime_stats)
             = CountTotal(summary.result.horizon_stats)

\* C35's case: a summary over metrics of two anchor dates, counted under
\* their regimes and under their horizons.
C35_Witness ==
    /\ summary # NoSummary
    /\ Cardinality({ accuracy_metrics[i].anchor_date : i \in 1..Len(accuracy_metrics) }) = 2
    /\ CountTotal(summary.result.horizon_stats) >= 2
    /\ CountTotal(summary.result.regime_stats) >= 2

\* C36: when no metric row was calculated within the trailing `days` days
\* ending at the call, get_accuracy_summary returns overall_mape 0,
\* overall_accuracy 100 and empty horizon_stats and regime_stats.
C36_EmptyWindowGivesDefaults ==
    [][ ( /\ summary' # summary
          /\ TrailingWindowRows(accuracy_metrics, summary'.at, summary'.days) = <<>> ) =>
            /\ summary'.result.overall_mape = 0
            /\ summary'.result.overall_accuracy = 100 * 1000
            /\ summary'.result.horizon_stats = <<>>
            /\ summary'.result.regime_stats = <<>> ]_vars

====
